---- MODULE Spec2Model ----
(***************************************************************************)
(* SQLite event store / command store of comby-store-sqlite.               *)
(*                                                                         *)
(* One store object (an event store or a command store, chosen in Init) is *)
(* used by NumCallers goroutines.  Text columns that the code transforms   *)
(* (payload, hex text, request context) are sequences of character codes;  *)
(* identifiers that the code only copies and compares are TLA+ strings.    *)
(***************************************************************************)
EXTENDS Integers, Sequences, FiniteSets, TLC

\* ------------------------------------------------------------------ bounds
NumCallers == 2
MaxRowId == 2
MaxListRows == 4
MaxExtraRows == 1

Callers == 1..NumCallers

\* --------------------------------------------------------- program values
\* db.SetMaxOpenConns(1)
MaxOpenConns_two == 1 + 1
MaxOpenConns == 1

\* the absent record / absent object / absent result (a nil interface)
Nil == [nil |-> TRUE]

\* the text "{}"
EmptyObjectJSON == <<123, 125>>

\* ------------------------------------------------------------- hex package
HexDigit(d) == IF d < 10 THEN 48 + d ELSE 87 + d

\* hex.EncodeToString: two lower-case hex characters per byte
RECURSIVE EncodeToString(_)
EncodeToString(bytes) ==
    IF bytes = <<>> THEN <<>>
    ELSE <<HexDigit(Head(bytes) \div 16), HexDigit(Head(bytes) % 16)>>
             \o EncodeToString(Tail(bytes))

IsHexChar(c) == (c >= 48 /\ c <= 57) \/ (c >= 97 /\ c <= 102) \/ (c >= 65 /\ c <= 70)

HexValue(c) == IF c <= 57 THEN c - 48 ELSE IF c >= 97 THEN c - 87 ELSE c - 55

RECURSIVE DecodePairs(_)
DecodePairs(text) ==
    IF text = <<>> THEN <<>>
    ELSE <<HexValue(text[1]) * 16 + HexValue(text[2])>> \o DecodePairs(Tail(Tail(text)))

\* hex.DecodeString: an error for an odd length or a non-hex character
DecodeString(text) ==
    IF Len(text) % 2 = 1 \/ \E i \in 1..Len(text) : ~IsHexChar(text[i])
    THEN [err |-> TRUE, bytes |-> <<>>]
    ELSE [err |-> FALSE, bytes |-> DecodePairs(text)]

\* ----------------------------------------------- the injected CryptoService
\* A concrete cipher that honours the call contract: the ciphertext starts
\* with a tag byte and every plaintext byte is shifted by the key.
CipherTag == 1
CipherKey == 3

CryptoEncrypt(plain) ==
    [err |-> FALSE,
     bytes |-> <<CipherTag>> \o [i \in 1..Len(plain) |-> (plain[i] + CipherKey) % 256]]

CryptoDecrypt(cipher) ==
    IF Len(cipher) < 1 \/ cipher[1] # CipherTag
    THEN [err |-> TRUE, bytes |-> <<>>]
    ELSE [err |-> FALSE,
          bytes |-> [i \in 1..(Len(cipher) - 1) |-> (cipher[i + 1] + 256 - CipherKey) % 256]]

\* ------------------------------------------------------ internal/serializer
\* The structured payload objects of the model are Go ints 0..9, whose JSON
\* is their decimal digit; a request context has one one-digit identifier.
Serialize(src) ==
    IF src = Nil THEN <<>>
    ELSE IF "sender" \in DOMAIN src THEN <<123, 48 + src.sender, 125>>
    ELSE <<48 + src.int>>

\* json.Unmarshal into a RequestContext
Deserialize(dataBytes) ==
    IF Len(dataBytes) = 3 /\ dataBytes[1] = 123 /\ dataBytes[3] = 125
       /\ dataBytes[2] >= 48 /\ dataBytes[2] <= 57
    THEN [err |-> FALSE, ctx |-> [sender |-> dataBytes[2] - 48]]
    ELSE [err |-> TRUE, ctx |-> Nil]

\* comby.GetTypeName
GetTypeName(obj) == "int"

BaseEventToDbEvent_rawfirst(evt) ==
    LET evtDataBytes == IF evt.DomainEvtBytes # <<>> \/ evt.DomainEvt = Nil
                        THEN evt.DomainEvtBytes ELSE Serialize(evt.DomainEvt)
        dataType == IF evt.DomainEvtName = "" /\ evt.DomainEvt # Nil
                    THEN GetTypeName(evt.DomainEvt) ELSE evt.DomainEvtName
    IN [ID |-> 0,
        InstanceId |-> evt.InstanceId,
        Uuid |-> evt.EventUuid,
        TenantUuid |-> evt.TenantUuid,
        CommandUuid |-> evt.CommandUuid,
        Domain |-> evt.Domain,
        AggregateUuid |-> evt.AggregateUuid,
        Version |-> evt.Version,
        CreatedAt |-> evt.CreatedAt,
        DataType |-> dataType,
        DataBytes |-> evtDataBytes]

BaseEventToDbEvent(evt) ==
    LET evtDataBytes == IF evt.DomainEvt # Nil THEN Serialize(evt.DomainEvt)
                        ELSE evt.DomainEvtBytes
        dataType == IF evt.DomainEvtName = "" /\ evt.DomainEvt # Nil
                    THEN GetTypeName(evt.DomainEvt) ELSE evt.DomainEvtName
    IN [ID |-> 0,
        InstanceId |-> evt.InstanceId,
        Uuid |-> evt.EventUuid,
        TenantUuid |-> evt.TenantUuid,
        CommandUuid |-> evt.CommandUuid,
        Domain |-> evt.Domain,
        AggregateUuid |-> evt.AggregateUuid,
        Version |-> evt.Version,
        CreatedAt |-> evt.CreatedAt,
        DataType |-> dataType,
        DataBytes |-> evtDataBytes]

DbEventToBaseEvent(dbEvent) ==
    [InstanceId |-> dbEvent.InstanceId,
     EventUuid |-> dbEvent.Uuid,
     TenantUuid |-> dbEvent.TenantUuid,
     CommandUuid |-> dbEvent.CommandUuid,
     Domain |-> dbEvent.Domain,
     AggregateUuid |-> dbEvent.AggregateUuid,
     Version |-> dbEvent.Version,
     DomainEvtName |-> dbEvent.DataType,
     DomainEvtBytes |-> dbEvent.DataBytes,
     DomainEvt |-> Nil,
     CreatedAt |-> dbEvent.CreatedAt]

BaseCommandToDbCommand(cmd) ==
    LET cmdDataBytes == IF cmd.DomainCmd # Nil THEN Serialize(cmd.DomainCmd)
                        ELSE cmd.DomainCmdBytes
        dataType == IF cmd.DomainCmdName = "" /\ cmd.DomainCmd # Nil
                    THEN GetTypeName(cmd.DomainCmd) ELSE cmd.DomainCmdName
    IN [ID |-> 0,
        InstanceId |-> cmd.InstanceId,
        Uuid |-> cmd.CommandUuid,
        TenantUuid |-> cmd.TenantUuid,
        Domain |-> cmd.Domain,
        CreatedAt |-> cmd.CreatedAt,
        DataType |-> dataType,
        DataBytes |-> cmdDataBytes,
        ReqCtx |-> Serialize(cmd.ReqCtx)]

\* the zero RequestContext that &reqCtx points to when req_ctx is empty
ZeroReqCtx == [sender |-> 0]

DbCommandToBaseCommand_nilctx(dbCmd) ==
    LET parsed == IF Len(dbCmd.ReqCtx) > 0 THEN Deserialize(dbCmd.ReqCtx)
                  ELSE [err |-> FALSE, ctx |-> Nil]
    IN [err |-> parsed.err,
        cmd |-> IF parsed.err THEN Nil
                ELSE [InstanceId |-> dbCmd.InstanceId,
                      CommandUuid |-> dbCmd.Uuid,
                      TenantUuid |-> dbCmd.TenantUuid,
                      Domain |-> dbCmd.Domain,
                      DomainCmdName |-> dbCmd.DataType,
                      DomainCmdBytes |-> dbCmd.DataBytes,
                      DomainCmd |-> Nil,
                      CreatedAt |-> dbCmd.CreatedAt,
                      ReqCtx |-> parsed.ctx]]

DbCommandToBaseCommand(dbCmd) ==
    LET parsed == IF Len(dbCmd.ReqCtx) > 0 THEN Deserialize(dbCmd.ReqCtx)
                  ELSE [err |-> FALSE, ctx |-> ZeroReqCtx]
    IN [err |-> parsed.err,
        cmd |-> IF parsed.err THEN Nil
                ELSE [InstanceId |-> dbCmd.InstanceId,
                      CommandUuid |-> dbCmd.Uuid,
                      TenantUuid |-> dbCmd.TenantUuid,
                      Domain |-> dbCmd.Domain,
                      DomainCmdName |-> dbCmd.DataType,
                      DomainCmdBytes |-> dbCmd.DataBytes,
                      DomainCmd |-> Nil,
                      CreatedAt |-> dbCmd.CreatedAt,
                      ReqCtx |-> parsed.ctx]]

\* -------------------------------------------------- payload cipher adapter
\* eventStoreSQLite.encryptDomainData, given that a crypto service is set
encryptDomainData(dbRecord) ==
    IF Len(dbRecord.DataBytes) < 1 THEN [err |-> TRUE, rec |-> dbRecord]
    ELSE LET enc == CryptoEncrypt(dbRecord.DataBytes)
         IN IF enc.err THEN [err |-> TRUE, rec |-> dbRecord]
            ELSE [err |-> FALSE,
                  rec |-> [dbRecord EXCEPT !.DataBytes = EncodeToString(enc.bytes)]]

\* eventStoreSQLite.decryptDomainData, given that a crypto service is set
decryptDomainData(dbRecord) ==
    LET dec == DecodeString(dbRecord.DataBytes)
    IN IF dec.err \/ Len(dec.bytes) < 1 THEN [err |-> TRUE, rec |-> dbRecord]
       ELSE LET plain == CryptoDecrypt(dec.bytes)
            IN IF plain.err THEN [err |-> TRUE, rec |-> dbRecord]
               ELSE [err |-> FALSE, rec |-> [dbRecord EXCEPT !.DataBytes = plain.bytes]]

\* ------------------------------------------------- the records callers pass
BaseEvent(uuid, tenant, createdAt, name, bytes, obj) ==
    [InstanceId |-> 1, EventUuid |-> uuid, TenantUuid |-> tenant,
     CommandUuid |-> "c1", Domain |-> "d1", AggregateUuid |-> "a1",
     Version |-> 1, CreatedAt |-> createdAt,
     DomainEvtName |-> name, DomainEvtBytes |-> bytes, DomainEvt |-> obj]

BaseCommand(uuid, tenant, createdAt, name, bytes, obj, reqCtx) ==
    [InstanceId |-> 1, CommandUuid |-> uuid, TenantUuid |-> tenant,
     Domain |-> "d1", CreatedAt |-> createdAt,
     DomainCmdName |-> name, DomainCmdBytes |-> bytes, DomainCmd |-> obj,
     ReqCtx |-> reqCtx]

\* raw payload only; structured payload only (no name); empty payload;
\* no identifier; no record at all
FirstEvent == BaseEvent("e1", "t1", 1000, "T", EmptyObjectJSON, Nil)

FirstCommand == BaseCommand("e1", "t1", 1000, "T", EmptyObjectJSON, Nil, Nil)

EventInputs ==
    { FirstEvent,
      BaseEvent("e1", "t2", 2000, "", <<>>, [int |-> 7]),
      BaseEvent("e2", "t1", 1000, "T", <<>>, Nil),
      BaseEvent("", "t1", 1000, "T", EmptyObjectJSON, Nil),
      Nil }

CommandInputs ==
    { FirstCommand,
      BaseCommand("e1", "t2", 2000, "", <<>>, [int |-> 7], [sender |-> 4]),
      BaseCommand("e2", "t1", 1000, "T", <<>>, Nil, Nil),
      BaseCommand("", "t1", 1000, "T", EmptyObjectJSON, Nil, Nil),
      Nil }

\* the identifiers callers pass to Get and Delete ("" is the absent option)
UuidInputs == {"", "e1", "e2"}

\* Caller 1 issues every call with every input.  The other callers compete
\* with it for the connection with a fixed workload: Create of the first
\* record, Delete of "e1" and Total.
MainCaller == CHOOSE p \in Callers : \A q \in Callers : p <= q

CreateInputs(p, inputs, first) == IF p = MainCaller THEN inputs ELSE {first}

UpdateInputs(p, inputs) == IF p = MainCaller THEN inputs ELSE {}

GetInputs(p) == IF p = MainCaller THEN UuidInputs ELSE {}

DeleteInputs(p) == IF p = MainCaller THEN UuidInputs ELSE {"e1"}

\* ------------------------------------------------------------ file system
\* A database file left at the storage path by an earlier run holds the
\* table and one row with a plain-text payload.
SeedRow(k) ==
    IF k = "event"
    THEN [BaseEventToDbEvent(BaseEvent("e2", "t2", 1000, "T", EmptyObjectJSON, Nil))
              EXCEPT !.ID = 1]
    ELSE [BaseCommandToDbCommand(BaseCommand("e2", "t2", 1000, "T", EmptyObjectJSON, Nil, Nil))
              EXCEPT !.ID = 1]

InitialDisks(k) ==
    { [files |-> {}, schema |-> FALSE, rows |-> <<>>],
      [files |-> {"db"}, schema |-> TRUE, rows |-> <<SeedRow(k)>>] }

\* ------------------------------------------------------------------ state
VARIABLES
    kind,      \* "event" (eventStoreSQLite) or "command" (commandStoreSQLite)
    options,   \* es.options / cs.options: ReadOnly, CryptoService set or nil
    db,        \* es.db / cs.db: "nil" before Init, "open" after
    files,     \* the files whose name starts with the storage path
    schema,    \* whether the table exists in the database file
    rows,      \* the committed rows of the table, in rowid order
    inUse,     \* connections of the pool that are handed out
    openTx,    \* callers whose transaction is neither committed nor rolled back
    txWork,    \* per caller, the rows as seen inside its transaction
    pc,        \* per caller, its position in the handler it is running
    call,      \* per caller, the call it is running
    ret        \* what the step just taken returned to which caller, if it returned

vars == <<kind, options, db, files, schema, rows, inUse, openTx, txWork, pc, call, ret>>

NoCall == [op |-> "none"]

Result(op, err, val, n) == [op |-> op, err |-> err, val |-> val, n |-> n]

NoResult == Result("none", "", Nil, 0)

Returned(p, result) == [caller |-> p, res |-> result]

NoReturn == Returned(0, NoResult)

Init ==
    /\ kind \in {"event", "command"}
    /\ options = [ReadOnly |-> FALSE, CryptoService |-> FALSE]
    /\ db = "nil"
    /\ \E disk \in InitialDisks(kind) :
          /\ files = disk.files
          /\ schema = disk.schema
          /\ rows = disk.rows
    /\ inUse = 0
    /\ openTx = {}
    /\ txWork = [p \in Callers |-> <<>>]
    /\ pc = [p \in Callers |-> "idle"]
    /\ call = [p \in Callers |-> NoCall]
    /\ ret = NoReturn

\* ------------------------------------------------------------ small helpers
IsReadOnly_ignored == FALSE
IsReadOnly == options.ReadOnly

HasCryptoService == options.CryptoService

\* len(uuid) < 1
InvalidUuid_never(uuid) == FALSE
InvalidUuid(uuid) == uuid = ""

\* the handler returns: the caller is idle again and its result is recorded
Return(p, result) ==
    /\ pc' = [pc EXCEPT ![p] = "idle"]
    /\ call' = [call EXCEPT ![p] = NoCall]
    /\ ret' = Returned(p, result)

\* the handler goes on to its next step
Goto(p, label) ==
    /\ pc' = [pc EXCEPT ![p] = label]
    /\ call' = call
    /\ ret' = NoReturn

\* the handler starts a database call and waits for the pool's connection
Start(p, c, label) ==
    /\ pc' = [pc EXCEPT ![p] = label]
    /\ call' = [call EXCEPT ![p] = c]
    /\ ret' = NoReturn


\* ------------------------------------------------------ connect / migrate
\* Init: apply the options, connect (creates the database file) and, unless
\* read-only, migrate (CREATE TABLE IF NOT EXISTS)
StoreInit_migrates(readOnly, cryptoService) ==
    /\ db = "nil"
    /\ options' = [ReadOnly |-> readOnly, CryptoService |-> cryptoService]
    /\ db' = "open"
    /\ files' = files \cup {"db"}
    /\ schema' = TRUE
    /\ ret' = NoReturn
    /\ UNCHANGED <<kind, rows, inUse, openTx, txWork, pc, call>>

StoreInit(readOnly, cryptoService) ==
    /\ db = "nil"
    /\ options' = [ReadOnly |-> readOnly, CryptoService |-> cryptoService]
    /\ db' = "open"
    /\ files' = files \cup {"db"}
    /\ schema' = (schema \/ ~readOnly)
    /\ ret' = NoReturn
    /\ UNCHANGED <<kind, rows, inUse, openTx, txWork, pc, call>>

EventStoreInit(readOnly, cryptoService) ==
    kind = "event" /\ StoreInit(readOnly, cryptoService)

CommandStoreInit(readOnly, cryptoService) ==
    kind = "command" /\ StoreInit(readOnly, cryptoService)

\* id INTEGER PRIMARY KEY without AUTOINCREMENT: one more than the largest
NextRowId(table) ==
    IF table = <<>> THEN 1
    ELSE 1 + (CHOOSE m \in {table[i].ID : i \in 1..Len(table)} :
                 \A i \in 1..Len(table) : table[i].ID <= m)

\* inserts in flight, counted so that no row id goes beyond MaxRowId
PendingInserts == Cardinality({q \in Callers : call[q].op = "Create"})

RoomForInsert == NextRowId(rows) + PendingInserts <= MaxRowId

\* ------------------------------------------------------------ write calls
\* Create and Update up to db.Begin(): the guard clauses, the conversion to
\* a row and (event store only) the encryption of the payload
EventStoreWrite(p, op, evt) ==
    /\ kind = "event"
    /\ db = "open"
    /\ pc[p] = "idle"
    /\ UNCHANGED <<kind, options, db, files, schema, rows, inUse, openTx, txWork>>
    /\ IF IsReadOnly THEN Return(p, Result(op, "readonly", Nil, 0))
       ELSE IF evt = Nil THEN Return(p, Result(op, "nil", Nil, 0))
       ELSE IF InvalidUuid(evt.EventUuid) THEN Return(p, Result(op, "uuid", Nil, 0))
       ELSE LET dbRecord == BaseEventToDbEvent(evt)
                sealed == IF HasCryptoService THEN encryptDomainData(dbRecord)
                          ELSE [err |-> FALSE, rec |-> dbRecord]
            IN IF sealed.err THEN Return(p, Result(op, "encrypt", Nil, 0))
               ELSE Start(p, [op |-> op, rec |-> evt, dbRecord |-> sealed.rec], "begin")

EventStoreCreate(p, evt) ==
    /\ RoomForInsert
    /\ EventStoreWrite(p, "Create", evt)

EventStoreUpdate(p, evt) == EventStoreWrite(p, "Update", evt)

\* the command store never touches the crypto service
CommandStoreWrite(p, op, cmd) ==
    /\ kind = "command"
    /\ db = "open"
    /\ pc[p] = "idle"
    /\ UNCHANGED <<kind, options, db, files, schema, rows, inUse, openTx, txWork>>
    /\ IF IsReadOnly THEN Return(p, Result(op, "readonly", Nil, 0))
       ELSE IF cmd = Nil THEN Return(p, Result(op, "nil", Nil, 0))
       ELSE IF InvalidUuid(cmd.CommandUuid) THEN Return(p, Result(op, "uuid", Nil, 0))
       ELSE Start(p, [op |-> op, rec |-> cmd, dbRecord |-> BaseCommandToDbCommand(cmd)],
                  "begin")

CommandStoreCreate(p, cmd) ==
    /\ RoomForInsert
    /\ CommandStoreWrite(p, "Create", cmd)

CommandStoreUpdate(p, cmd) == CommandStoreWrite(p, "Update", cmd)

\* ------------------------------------------------------------ SQL effects
\* whether the statement text compiles: the UPDATE of the command store has
\* an unmatched ")" before WHERE
QueryValid(k, op) == ~(k = "command" /\ op = "Update")

\* INSERT INTO ... VALUES (?,...): no column is constrained
Insert_nobytes(table, dbRecord) ==
    Append(table, [dbRecord EXCEPT !.ID = NextRowId(table), !.DataBytes = <<>>])

Insert(table, dbRecord) == Append(table, [dbRecord EXCEPT !.ID = NextRowId(table)])

\* UPDATE ... SET every column but id and uuid ... WHERE uuid=?
UpdateRow_partial(row, dbRecord) ==
    [dbRecord EXCEPT !.ID = row.ID, !.Uuid = row.Uuid, !.DataType = row.DataType]

UpdateRow(row, dbRecord) == [dbRecord EXCEPT !.ID = row.ID, !.Uuid = row.Uuid]

UpdateWhereUuid_all(table, dbRecord) ==
    [i \in 1..Len(table) |-> UpdateRow(table[i], dbRecord)]

UpdateWhereUuid(table, dbRecord) ==
    [i \in 1..Len(table) |->
        IF table[i].Uuid = dbRecord.Uuid THEN UpdateRow(table[i], dbRecord) ELSE table[i]]

\* A caller's string is written between two quotes into the statement text
\* (fmt.Sprintf("uuid='%s'", ...)).  Segments is the string cut at its quote
\* characters; of the model's strings two hold quotes.
Segments(text) ==
    CASE text = "O'Brien" -> <<"O", "Brien">>
      [] text = "' OR ''='" -> <<"", " OR ", "", "=", "">>
      [] OTHER -> <<text>>

\* What the engine reads in col='<text>': the literal the column is compared
\* with; with an even number of segments the last quote opens a literal that
\* never ends; an empty segment between two literals is an escaped quote;
\* lit OR lit = lit is a second operand, which binds looser than AND.
Embedded(text) ==
    LET seg == Segments(text)
    IN IF Len(seg) = 1
       THEN [err |-> FALSE, lit |-> text, or |-> FALSE, always |-> FALSE]
       ELSE IF Len(seg) = 3 /\ seg[2] = ""
       THEN [err |-> FALSE, lit |-> seg[1] \o "'" \o seg[3], or |-> FALSE, always |-> FALSE]
       ELSE IF Len(seg) = 5 /\ seg[2] = " OR " /\ seg[4] = "="
       THEN [err |-> FALSE, lit |-> seg[1], or |-> TRUE, always |-> seg[3] = seg[5]]
       ELSE [err |-> TRUE, lit |-> "", or |-> FALSE, always |-> FALSE]

\* WHERE col='<text>' on one cell of the column
Matches(cell, text) ==
    LET read == Embedded(text)
    IN cell = read.lit \/ (read.or /\ read.always)

\* DELETE FROM ... WHERE uuid='...'
DeleteWhereUuid_first(table, uuid) ==
    LET hits == {i \in 1..Len(table) : table[i].Uuid = uuid}
    IN IF hits = {} THEN table
       ELSE LET first == CHOOSE i \in hits : \A j \in hits : i <= j
            IN SubSeq(table, 1, first - 1) \o SubSeq(table, first + 1, Len(table))

DeleteWhereUuid(table, uuid) == SelectSeq(table, LAMBDA row : ~Matches(row.Uuid, uuid))

\* SELECT * FROM ... [WHERE uuid='...'] LIMIT 1: the rows are scanned by rowid
SelectWhereUuid(table, uuid) ==
    IF uuid = "" THEN table ELSE SelectSeq(table, LAMBDA row : Matches(row.Uuid, uuid))

Statement_upsert(c, table) ==
    IF c.op = "Create" /\ SelectWhereUuid(table, c.dbRecord.Uuid) = <<>>
    THEN Insert(table, c.dbRecord)
    ELSE UpdateWhereUuid(table, c.dbRecord)

Statement(c, table) ==
    IF c.op = "Create" THEN Insert(table, c.dbRecord) ELSE UpdateWhereUuid(table, c.dbRecord)

\* ------------------------------------------------------- transaction steps
\* tx, err := db.Begin(): takes the pool's connection and keeps it
TxBegin(p) ==
    /\ pc[p] = "begin"
    /\ inUse < MaxOpenConns
    /\ inUse' = inUse + 1
    /\ openTx' = openTx \cup {p}
    /\ txWork' = [txWork EXCEPT ![p] = rows]
    /\ Goto(p, "prepare")
    /\ UNCHANGED <<kind, options, db, files, schema, rows>>

\* stmt, err := tx.Prepare(query) succeeded
TxPrepare(p) ==
    /\ pc[p] = "prepare"
    /\ QueryValid(kind, call[p].op) /\ schema
    /\ Goto(p, "exec")
    /\ UNCHANGED <<kind, options, db, files, schema, rows, inUse, openTx, txWork>>

\* tx.Prepare failed: "return err", the transaction is left as it is
TxPrepareFail(p) ==
    /\ pc[p] = "prepare"
    /\ Return(p, Result(call[p].op, "prepare", Nil, 0))
    /\ UNCHANGED <<kind, options, db, files, schema, rows, inUse, openTx, txWork>>

\* stmt.ExecContext succeeded: the statement acts inside the transaction
TxExec(p) ==
    /\ pc[p] = "exec"
    /\ txWork' = [txWork EXCEPT ![p] = Statement(call[p], txWork[p])]
    /\ Goto(p, "close")
    /\ UNCHANGED <<kind, options, db, files, schema, rows, inUse, openTx>>

\* stmt.ExecContext failed (cancelled context, I/O error): "return err"
TxExecFail_partial(p) ==
    /\ pc[p] = "exec"
    /\ rows' = Statement(call[p], rows)
    /\ Return(p, Result(call[p].op, "exec", Nil, 0))
    /\ UNCHANGED <<kind, options, db, files, schema, inUse, openTx, txWork>>

TxExecFail(p) ==
    /\ pc[p] = "exec"
    /\ Return(p, Result(call[p].op, "exec", Nil, 0))
    /\ UNCHANGED <<kind, options, db, files, schema, rows, inUse, openTx, txWork>>

\* stmt.Close() succeeded
TxStmtClose(p) ==
    /\ pc[p] = "close"
    /\ Goto(p, "commit")
    /\ UNCHANGED <<kind, options, db, files, schema, rows, inUse, openTx, txWork>>

\* stmt.Close() failed: "return err"
TxStmtCloseFail(p) ==
    /\ pc[p] = "close"
    /\ Return(p, Result(call[p].op, "close", Nil, 0))
    /\ UNCHANGED <<kind, options, db, files, schema, rows, inUse, openTx, txWork>>

\* return tx.Commit(), succeeding: the rows become visible, the connection
\* goes back to the pool
TxCommit(p) ==
    /\ pc[p] = "commit"
    /\ rows' = txWork[p]
    /\ inUse' = inUse - 1
    /\ openTx' = openTx \ {p}
    /\ txWork' = [txWork EXCEPT ![p] = <<>>]
    /\ Return(p, Result(call[p].op, "", Nil, 0))
    /\ UNCHANGED <<kind, options, db, files, schema>>

\* return tx.Commit(), failing: the transaction is over, nothing is written
TxCommitFail(p) ==
    /\ pc[p] = "commit"
    /\ inUse' = inUse - 1
    /\ openTx' = openTx \ {p}
    /\ txWork' = [txWork EXCEPT ![p] = <<>>]
    /\ Return(p, Result(call[p].op, "commit", Nil, 0))
    /\ UNCHANGED <<kind, options, db, files, schema, rows>>

\* ------------------------------------------------- single-statement calls
\* db.QueryRowContext / db.ExecContext got the pool's connection
ConnAcquire(p) ==
    /\ pc[p] = "query"
    /\ inUse < MaxOpenConns
    /\ inUse' = inUse + 1
    /\ Goto(p, "run")
    /\ UNCHANGED <<kind, options, db, files, schema, rows, openTx, txWork>>

\* the caller's context ends while the call waits for the connection; Total
\* has no error to return and returns 0
CtxDone(p) ==
    /\ pc[p] = "query"
    /\ Return(p, Result(call[p].op, IF call[p].op = "Total" THEN "" ELSE "ctx", Nil, 0))
    /\ UNCHANGED <<kind, options, db, files, schema, rows, inUse, openTx, txWork>>

\* Get: options, then the query is built and sent
StoreGet(p, uuid) ==
    /\ db = "open"
    /\ pc[p] = "idle"
    /\ Start(p, [op |-> "Get", uuid |-> uuid], "query")
    /\ UNCHANGED <<kind, options, db, files, schema, rows, inUse, openTx, txWork>>

EventStoreGet(p, uuid) == kind = "event" /\ StoreGet(p, uuid)

CommandStoreGet(p, uuid) == kind = "command" /\ StoreGet(p, uuid)

\* Get: the row is scanned, decrypted when a crypto service is set, converted
EventQueryRow_notfound(table, uuid) ==
    LET found == SelectWhereUuid(table, uuid)
    IN IF ~schema \/ Embedded(uuid).err THEN Result("Get", "query", Nil, 0)
       ELSE IF found = <<>> THEN Result("Get", "norows", Nil, 0)
       ELSE LET opened == IF HasCryptoService THEN decryptDomainData(found[1])
                          ELSE [err |-> FALSE, rec |-> found[1]]
            IN IF opened.err THEN Result("Get", "decrypt", Nil, 0)
               ELSE Result("Get", "", DbEventToBaseEvent(opened.rec), 0)

EventQueryRow(table, uuid) ==
    LET found == SelectWhereUuid(table, uuid)
    IN IF ~schema \/ Embedded(uuid).err THEN Result("Get", "query", Nil, 0)
       ELSE IF found = <<>> THEN Result("Get", "", Nil, 0)
       ELSE LET opened == IF HasCryptoService THEN decryptDomainData(found[1])
                          ELSE [err |-> FALSE, rec |-> found[1]]
            IN IF opened.err THEN Result("Get", "decrypt", Nil, 0)
               ELSE Result("Get", "", DbEventToBaseEvent(opened.rec), 0)

EventStoreGetRow(p) ==
    /\ kind = "event"
    /\ pc[p] = "run" /\ call[p].op = "Get"
    /\ inUse' = inUse - 1
    /\ Return(p, EventQueryRow(rows, call[p].uuid))
    /\ UNCHANGED <<kind, options, db, files, schema, rows, openTx, txWork>>

\* Get of the command store: the row is scanned and converted, never decrypted
CommandQueryRow(table, uuid) ==
    LET found == SelectWhereUuid(table, uuid)
    IN IF ~schema \/ Embedded(uuid).err THEN Result("Get", "query", Nil, 0)
       ELSE IF found = <<>> THEN Result("Get", "", Nil, 0)
       ELSE LET converted == DbCommandToBaseCommand(found[1])
            IN IF converted.err THEN Result("Get", "deserialize", Nil, 0)
               ELSE Result("Get", "", converted.cmd, 0)

CommandStoreGetRow(p) ==
    /\ kind = "command"
    /\ pc[p] = "run" /\ call[p].op = "Get"
    /\ inUse' = inUse - 1
    /\ Return(p, CommandQueryRow(rows, call[p].uuid))
    /\ UNCHANGED <<kind, options, db, files, schema, rows, openTx, txWork>>

\* Delete: the guard clauses, then the statement is sent
StoreDelete(p, uuid) ==
    /\ db = "open"
    /\ pc[p] = "idle"
    /\ UNCHANGED <<kind, options, db, files, schema, rows, inUse, openTx, txWork>>
    /\ IF IsReadOnly THEN Return(p, Result("Delete", "readonly", Nil, 0))
       ELSE IF InvalidUuid(uuid) THEN Return(p, Result("Delete", "uuid", Nil, 0))
       ELSE Start(p, [op |-> "Delete", uuid |-> uuid], "query")

EventStoreDelete(p, uuid) == kind = "event" /\ StoreDelete(p, uuid)

CommandStoreDelete(p, uuid) == kind = "command" /\ StoreDelete(p, uuid)

\* Delete: the statement ran in its own implicit transaction
StoreDeleteExec_notfound(p) ==
    /\ pc[p] = "run" /\ call[p].op = "Delete"
    /\ inUse' = inUse - 1
    /\ UNCHANGED <<kind, options, db, files, schema, openTx, txWork>>
    /\ IF ~schema \/ Embedded(call[p].uuid).err
       THEN /\ Return(p, Result("Delete", "query", Nil, 0))
            /\ UNCHANGED rows
       ELSE /\ rows' = DeleteWhereUuid(rows, call[p].uuid)
            /\ Return(p, Result("Delete",
                                IF rows' = rows THEN "norows" ELSE "", Nil, 0))

StoreDeleteExec(p) ==
    /\ pc[p] = "run" /\ call[p].op = "Delete"
    /\ inUse' = inUse - 1
    /\ UNCHANGED <<kind, options, db, files, schema, openTx, txWork>>
    /\ IF ~schema \/ Embedded(call[p].uuid).err
       THEN /\ Return(p, Result("Delete", "query", Nil, 0))
            /\ UNCHANGED rows
       ELSE /\ rows' = DeleteWhereUuid(rows, call[p].uuid)
            /\ Return(p, Result("Delete", "", Nil, 0))

\* Total: the count query is sent
StoreTotal(p) ==
    /\ db = "open"
    /\ pc[p] = "idle"
    /\ Start(p, [op |-> "Total"], "query")
    /\ UNCHANGED <<kind, options, db, files, schema, rows, inUse, openTx, txWork>>

EventStoreTotal(p) == kind = "event" /\ StoreTotal(p)

CommandStoreTotal(p) == kind = "command" /\ StoreTotal(p)

\* Total: SELECT COUNT(id), or 0 when the query fails
CountRows_nextid(table) == IF schema THEN NextRowId(table) - 1 ELSE 0

CountRows(table) == IF schema THEN Len(table) ELSE 0

StoreTotalRow(p) ==
    /\ pc[p] = "run" /\ call[p].op = "Total"
    /\ inUse' = inUse - 1
    /\ Return(p, Result("Total", "", Nil, CountRows(rows)))
    /\ UNCHANGED <<kind, options, db, files, schema, rows, openTx, txWork>>

\* Reset: removes every file that filepath.Glob(path + "*") finds; the open
\* connection keeps its handle on the removed database file
StoreReset(p) ==
    /\ db = "open"
    /\ pc[p] = "idle"
    /\ call' = call
    /\ pc' = pc
    /\ UNCHANGED <<kind, options, db, schema, rows, inUse, openTx, txWork>>
    /\ IF IsReadOnly
       THEN /\ ret' = Returned(p, Result("Reset", "readonly", Nil, 0))
            /\ UNCHANGED files
       ELSE /\ ret' = Returned(p, Result("Reset", "", Nil, 0))
            /\ files' = {}

EventStoreReset(p) == kind = "event" /\ StoreReset(p)

CommandStoreReset(p) == kind = "command" /\ StoreReset(p)

\* ------------------------------------------------------------------- List
\* listOpts as List starts with it: no filter, the first 100 rows by
\* created_at ascending
DefaultLimit == 100

DefaultListOptions ==
    [TenantUuid |-> "", AggregateUuid |-> "", DataType |-> "",
     Domains |-> <<>>, Domain |-> "",
     Before |-> -1, After |-> -1, Offset |-> 0, Limit |-> DefaultLimit,
     OrderBy |-> "created_at", Ascending |-> TRUE]

\* one entry of whereList: a column, a comparison and the value written into
\* the text
Condition(col, cmp, val) == [col |-> col, cmp |-> cmp, val |-> val]

\* the options that add an entry to whereList, in the order the code tests
\* them
EventWhereList(listOpts) ==
    (IF listOpts.TenantUuid # ""
        THEN <<Condition("tenant_uuid", "=", listOpts.TenantUuid)>> ELSE <<>>)
    \o (IF listOpts.AggregateUuid # ""
        THEN <<Condition("aggregate_uuid", "=", listOpts.AggregateUuid)>> ELSE <<>>)
    \o (IF listOpts.DataType # ""
        THEN <<Condition("data_type", "=", listOpts.DataType)>> ELSE <<>>)
    \o (IF Len(listOpts.Domains) > 0
        THEN <<Condition("domain", "IN", listOpts.Domains)>> ELSE <<>>)
    \o (IF listOpts.Before >= 0
        THEN <<Condition("created_at", "<", listOpts.Before)>> ELSE <<>>)
    \o (IF listOpts.After >= 0
        THEN <<Condition("created_at", ">", listOpts.After)>> ELSE <<>>)

CommandWhereList(listOpts) ==
    (IF listOpts.TenantUuid # ""
        THEN <<Condition("tenant_uuid", "=", listOpts.TenantUuid)>> ELSE <<>>)
    \o (IF listOpts.Domain # ""
        THEN <<Condition("domain", "=", listOpts.Domain)>> ELSE <<>>)
    \o (IF listOpts.DataType # ""
        THEN <<Condition("data_type", "=", listOpts.DataType)>> ELSE <<>>)
    \o (IF listOpts.Before >= 0
        THEN <<Condition("created_at", "<", listOpts.Before)>> ELSE <<>>)
    \o (IF listOpts.After >= 0
        THEN <<Condition("created_at", ">", listOpts.After)>> ELSE <<>>)

\* the value of a named column of a row
Column(row, col) ==
    CASE col = "id" -> row.ID
      [] col = "tenant_uuid" -> row.TenantUuid
      [] col = "aggregate_uuid" -> row.AggregateUuid
      [] col = "data_type" -> row.DataType
      [] col = "domain" -> row.Domain
      [] col = "created_at" -> row.CreatedAt

\* one entry of whereList evaluated on a row
ConditionHolds_inclusive(row, cond) ==
    CASE cond.cmp = "=" -> Column(row, cond.col) = Embedded(cond.val).lit
      [] cond.cmp = "IN" -> \E i \in 1..Len(cond.val) : Column(row, cond.col) = cond.val[i]
      [] cond.cmp = "<" -> Column(row, cond.col) <= cond.val
      [] cond.cmp = ">" -> Column(row, cond.col) >= cond.val

ConditionHolds(row, cond) ==
    CASE cond.cmp = "=" -> Column(row, cond.col) = Embedded(cond.val).lit
      [] cond.cmp = "IN" -> \E i \in 1..Len(cond.val) : Column(row, cond.col) = cond.val[i]
      [] cond.cmp = "<" -> Column(row, cond.col) < cond.val
      [] cond.cmp = ">" -> Column(row, cond.col) > cond.val

\* whether every entry of whereList compiles
WhereValid(whereList) ==
    \A i \in 1..Len(whereList) : whereList[i].cmp = "=" => ~Embedded(whereList[i].val).err

\* " WHERE c1 AND c2 AND ...", or no clause for an empty whereList.  An entry
\* that holds an OR ends the run of ANDed entries it stands in and starts the
\* next run with its second operand; a row is selected when one run holds.
Where(table, whereList) ==
    LET n == Len(whereList)
        Breaks == {i \in 1..n : whereList[i].cmp = "=" /\ Embedded(whereList[i].val).or}
        RunEnd(from) ==
            IF \E b \in Breaks : b > from
            THEN CHOOSE b \in Breaks : b > from /\ \A c \in Breaks : c > from => b <= c
            ELSE n
        RunHolds(row, from) ==
            /\ from > 0 => Embedded(whereList[from].val).always
            /\ \A i \in (from + 1)..RunEnd(from) : ConditionHolds(row, whereList[i])
    IN SelectSeq(table, LAMBDA row : \E from \in {0} \cup Breaks : RunHolds(row, from))

\* SELECT COUNT(id) FROM ... WHERE ...
CountWhere_page(table, whereList) ==
    IF Len(Where(table, whereList)) > DefaultLimit THEN DefaultLimit
    ELSE Len(Where(table, whereList))

CountWhere(table, whereList) == Len(Where(table, whereList))

\* " ORDER BY col ASC|DESC": every order of the rows that is sorted on the
\* column; rows with equal values come in an order SQL leaves open.  No
\* clause: the rows come as the table is scanned.
Sorted(table, col, ascending) ==
    LET Tied == {table[i].ID : i \in {i \in 1..Len(table) :
                    \E j \in 1..Len(table) :
                        j # i /\ Column(table[j], col) = Column(table[i], col)}}
    IN {SortSeq(table,
                LAMBDA a, b :
                    \/ IF ascending THEN Column(a, col) < Column(b, col)
                       ELSE Column(a, col) > Column(b, col)
                    \/ Column(a, col) = Column(b, col) /\ a.ID # b.ID
                         /\ tiebreak[a.ID] < tiebreak[b.ID]) :
           tiebreak \in Permutations(Tied)}

OrderBy(table, col, ascending) ==
    IF col = "" THEN {table} ELSE Sorted(table, col, ascending)

\* " LIMIT n" and " OFFSET m", each left out when its number is negative
LimitOffset_first(ordered, limit, offset) ==
    SubSeq(ordered, 1, IF limit >= 0 /\ limit < Len(ordered) THEN limit ELSE Len(ordered))

LimitOffset(ordered, limit, offset) ==
    LET from == IF offset >= 0 THEN offset ELSE 0
        upto == IF limit >= 0 /\ from + limit < Len(ordered) THEN from + limit
                ELSE Len(ordered)
    IN SubSeq(ordered, from + 1, upto)

\* whether the page query compiles: SQLite has no OFFSET without LIMIT
PageQueryValid(listOpts) == ~(listOpts.Limit < 0 /\ listOpts.Offset >= 0)

\* the pages the second query of List can produce
SelectPage(table, whereList, listOpts) ==
    {LimitOffset(ordered, listOpts.Limit, listOpts.Offset) :
        ordered \in OrderBy(Where(table, whereList), listOpts.OrderBy, listOpts.Ascending)}

\* List: the options are applied, whereList is built, the count query is sent
EventStoreList(p, listOpts) ==
    /\ kind = "event"
    /\ db = "open"
    /\ pc[p] = "idle"
    /\ Start(p, [op |-> "List", opts |-> listOpts, where |-> EventWhereList(listOpts),
                 phase |-> "count", queryTotal |-> 0], "query")
    /\ UNCHANGED <<kind, options, db, files, schema, rows, inUse, openTx, txWork>>

CommandStoreList(p, listOpts) ==
    /\ kind = "command"
    /\ db = "open"
    /\ pc[p] = "idle"
    /\ Start(p, [op |-> "List", opts |-> listOpts, where |-> CommandWhereList(listOpts),
                 phase |-> "count", queryTotal |-> 0], "query")
    /\ UNCHANGED <<kind, options, db, files, schema, rows, inUse, openTx, txWork>>

\* List: the count query ran and its row was scanned; the connection goes
\* back to the pool before the page query asks for it again
StoreListCount(p) ==
    /\ pc[p] = "run" /\ call[p].op = "List" /\ call[p].phase = "count"
    /\ inUse' = inUse - 1
    /\ UNCHANGED <<kind, options, db, files, schema, rows, openTx, txWork>>
    /\ IF ~schema \/ ~WhereValid(call[p].where)
       THEN Return(p, Result("List", "query", Nil, 0))
       ELSE /\ pc' = [pc EXCEPT ![p] = "query"]
            /\ call' = [call EXCEPT ![p].phase = "page",
                                    ![p].queryTotal = CountWhere(rows, call[p].where)]
            /\ ret' = NoReturn

\* List of the event store after the page query: every row is decrypted when
\* a crypto service is set, the first failure ends the call
DecryptAll(dbRecords) ==
    IF \E i \in 1..Len(dbRecords) : decryptDomainData(dbRecords[i]).err
    THEN [err |-> TRUE, recs |-> <<>>]
    ELSE [err |-> FALSE,
          recs |-> [i \in 1..Len(dbRecords) |-> decryptDomainData(dbRecords[i]).rec]]

DbEventsToBaseEvents(dbEvents) ==
    [i \in 1..Len(dbEvents) |-> DbEventToBaseEvent(dbEvents[i])]

EventListResult(dbRecords, queryTotal) ==
    LET opened == IF HasCryptoService THEN DecryptAll(dbRecords)
                  ELSE [err |-> FALSE, recs |-> dbRecords]
    IN IF opened.err THEN Result("List", "decrypt", Nil, 0)
       ELSE Result("List", "", DbEventsToBaseEvents(opened.recs), queryTotal)

\* List of the command store after the page query: the rows are converted,
\* never decrypted
DbCommandsToBaseCommands(dbCommands) ==
    IF \E i \in 1..Len(dbCommands) : DbCommandToBaseCommand(dbCommands[i]).err
    THEN [err |-> TRUE, cmds |-> <<>>]
    ELSE [err |-> FALSE,
          cmds |-> [i \in 1..Len(dbCommands) |-> DbCommandToBaseCommand(dbCommands[i]).cmd]]

CommandListResult(dbRecords, queryTotal) ==
    LET converted == DbCommandsToBaseCommands(dbRecords)
    IN IF converted.err THEN Result("List", "deserialize", Nil, 0)
       ELSE Result("List", "", converted.cmds, queryTotal)

\* List: the page query ran, its rows were scanned and closed
EventStoreListRows(p) ==
    /\ kind = "event"
    /\ pc[p] = "run" /\ call[p].op = "List" /\ call[p].phase = "page"
    /\ inUse' = inUse - 1
    /\ UNCHANGED <<kind, options, db, files, schema, rows, openTx, txWork>>
    /\ IF ~PageQueryValid(call[p].opts)
       THEN Return(p, Result("List", "query", Nil, 0))
       ELSE \E dbRecords \in SelectPage(rows, call[p].where, call[p].opts) :
               Return(p, EventListResult(dbRecords, call[p].queryTotal))

CommandStoreListRows(p) ==
    /\ kind = "command"
    /\ pc[p] = "run" /\ call[p].op = "List" /\ call[p].phase = "page"
    /\ inUse' = inUse - 1
    /\ UNCHANGED <<kind, options, db, files, schema, rows, openTx, txWork>>
    /\ IF ~PageQueryValid(call[p].opts)
       THEN Return(p, Result("List", "query", Nil, 0))
       ELSE \E dbRecords \in SelectPage(rows, call[p].where, call[p].opts) :
               Return(p, CommandListResult(dbRecords, call[p].queryTotal))

\* the options callers pass to List beside the store's other calls
ListInputs(p) ==
    IF p = MainCaller
    THEN {DefaultListOptions, [DefaultListOptions EXCEPT !.TenantUuid = "t1", !.Limit = 1]}
    ELSE {}

\* --------------------------------------------------------------------- Info
\* the caller that asks for Info
InfoCallers == {MainCaller}

InfoModel(lastCreatedAt, numItems) ==
    [StoreType |-> "sqlite", LastItemCreatedAt |-> lastCreatedAt,
     NumItems |-> numItems, ConnectionInfo |-> "path"]

\* Info: two single-row queries, each on the pool's connection
StoreInfo(p) ==
    /\ db = "open"
    /\ pc[p] = "idle"
    /\ Start(p, [op |-> "Info", phase |-> "count", dbTotal |-> 0], "query")
    /\ UNCHANGED <<kind, options, db, files, schema, rows, inUse, openTx, txWork>>

EventStoreInfo(p) == kind = "event" /\ StoreInfo(p)

CommandStoreInfo(p) == kind = "command" /\ StoreInfo(p)

\* SELECT COUNT(uuid): an error of the row or of its scan ends Info
StoreInfoCount_zero(p) ==
    /\ pc[p] = "run" /\ call[p].op = "Info" /\ call[p].phase = "count"
    /\ inUse' = inUse - 1
    /\ UNCHANGED <<kind, options, db, files, schema, rows, openTx, txWork>>
    /\ IF ~schema
       THEN Return(p, Result("Info", "", InfoModel(0, 0), 0))
       ELSE /\ pc' = [pc EXCEPT ![p] = "query"]
            /\ call' = [call EXCEPT ![p].phase = "last", ![p].dbTotal = Len(rows)]
            /\ ret' = NoReturn

StoreInfoCount(p) ==
    /\ pc[p] = "run" /\ call[p].op = "Info" /\ call[p].phase = "count"
    /\ inUse' = inUse - 1
    /\ UNCHANGED <<kind, options, db, files, schema, rows, openTx, txWork>>
    /\ IF ~schema
       THEN Return(p, Result("Info", "query", Nil, 0))
       ELSE /\ pc' = [pc EXCEPT ![p] = "query"]
            /\ call' = [call EXCEPT ![p].phase = "last", ![p].dbTotal = Len(rows)]
            /\ ret' = NoReturn

\* a column value of a result row: NULL or an integer
Null == [null |-> TRUE, int |-> 0]

Integer(v) == [null |-> FALSE, int |-> v]

\* MAX(created_at): NULL on a table without rows
MaxCreatedAt(table) ==
    IF table = <<>> THEN Null
    ELSE LET Values == {table[i].CreatedAt : i \in 1..Len(table)}
         IN Integer(CHOOSE m \in Values : \A v \in Values : v <= m)

\* COALESCE(x, default)
Coalesce(x, default) == IF x.null THEN Integer(default) ELSE x

\* row.Scan(&dbLastCreatedAt) into an int64: NULL cannot be converted
ScanInt64(x) == IF x.null THEN [err |-> "scan", val |-> 0] ELSE [err |-> "", val |-> x.int]

StoreInfoLast(p, lastCreatedAt) ==
    /\ pc[p] = "run" /\ call[p].op = "Info" /\ call[p].phase = "last"
    /\ inUse' = inUse - 1
    /\ UNCHANGED <<kind, options, db, files, schema, rows, openTx, txWork>>
    /\ LET scanned == ScanInt64(lastCreatedAt)
       IN IF ~schema THEN Return(p, Result("Info", "query", Nil, 0))
          ELSE IF scanned.err # "" THEN Return(p, Result("Info", scanned.err, Nil, 0))
          ELSE Return(p, Result("Info", "", InfoModel(scanned.val, call[p].dbTotal), 0))

\* SELECT COALESCE(MAX(created_at), 0) FROM events
EventStoreInfoLast(p) ==
    kind = "event" /\ StoreInfoLast(p, Coalesce(MaxCreatedAt(rows), 0))

\* SELECT MAX(created_at) FROM commands
CommandStoreInfoLast(p) ==
    kind = "command" /\ StoreInfoLast(p, MaxCreatedAt(rows))

\* --------------------------------------------------------------- UniqueList
DefaultUniqueListOptions ==
    [DbField |-> "tenant_uuid", TenantUuid |-> "", Domain |-> "",
     Offset |-> 0, Limit |-> DefaultLimit, Ascending |-> TRUE]

\* whereList of UniqueList: the tenant and the domain, when given
UniqueWhereList(listOpts) ==
    (IF listOpts.TenantUuid # ""
        THEN <<Condition("tenant_uuid", "=", listOpts.TenantUuid)>> ELSE <<>>)
    \o (IF listOpts.Domain # ""
        THEN <<Condition("domain", "=", listOpts.Domain)>> ELSE <<>>)

\* the columns declared INTEGER; the others are TEXT
IntegerColumns == {"id", "created_at"}

\* the TEXT values of the model in the order of SQLite's BINARY collation
Collation == <<"", "T", "U", "a1", "a2", "d1", "d2", "d3", "int", "t1", "t2">>

CollationRank(text) == CHOOSE i \in 1..Len(Collation) : Collation[i] = text

\* ORDER BY on one column's values
ValueBefore(col, a, b) ==
    IF col \in IntegerColumns THEN a < b ELSE CollationRank(a) < CollationRank(b)

\* rows.Scan(&dbUniqueValue) into a string
ScanString(col, value) == IF col \in IntegerColumns THEN ToString(value) ELSE value

\* SELECT DISTINCT col: the values of the column, each once
Distinct_all(table, col) ==
    [i \in 1..Len(table) |-> [at |-> i, value |-> Column(table[i], col)]]

Distinct(table, col) ==
    LET values == [i \in 1..Len(table) |-> [at |-> i, value |-> Column(table[i], col)]]
    IN SelectSeq(values, LAMBDA v : \A j \in 1..(v.at - 1) : values[j].value # v.value)

\* SELECT DISTINCT col FROM events WHERE ... ORDER BY col ASC|DESC LIMIT n OFFSET m
SelectDistinctPage(table, listOpts) ==
    LET col == listOpts.DbField
        ordered == SortSeq(Distinct(Where(table, UniqueWhereList(listOpts)), col),
                           LAMBDA a, b : IF listOpts.Ascending
                                         THEN ValueBefore(col, a.value, b.value)
                                         ELSE ValueBefore(col, b.value, a.value))
        page == LimitOffset(ordered, listOpts.Limit, listOpts.Offset)
    IN [i \in 1..Len(page) |-> ScanString(col, page[i].value)]

\* SELECT COUNT(DISTINCT col) FROM events WHERE ...
CountDistinct(table, listOpts) ==
    Len(Distinct(Where(table, UniqueWhereList(listOpts)), listOpts.DbField))

\* whether the statements compile: a column is named, no OFFSET without
\* LIMIT, and the filters' text is well-formed
UniqueQueryValid(listOpts) ==
    /\ listOpts.DbField # ""
    /\ PageQueryValid(listOpts)
    /\ WhereValid(UniqueWhereList(listOpts))

\* UniqueList: the options are applied and the page query is sent
EventStoreUniqueList(p, listOpts) ==
    /\ kind = "event"
    /\ db = "open"
    /\ pc[p] = "idle"
    /\ Start(p, [op |-> "UniqueList", opts |-> listOpts, phase |-> "page", values |-> <<>>],
             "query")
    /\ UNCHANGED <<kind, options, db, files, schema, rows, inUse, openTx, txWork>>

\* the page is read and its rows closed, then the total query is sent
EventStoreUniqueListRows(p) ==
    /\ pc[p] = "run" /\ call[p].op = "UniqueList" /\ call[p].phase = "page"
    /\ inUse' = inUse - 1
    /\ UNCHANGED <<kind, options, db, files, schema, rows, openTx, txWork>>
    /\ IF ~schema \/ ~UniqueQueryValid(call[p].opts)
       THEN Return(p, Result("UniqueList", "query", Nil, 0))
       ELSE /\ pc' = [pc EXCEPT ![p] = "query"]
            /\ call' = [call EXCEPT ![p].phase = "count",
                                    ![p].values = SelectDistinctPage(rows, call[p].opts)]
            /\ ret' = NoReturn

EventStoreUniqueListCount(p) ==
    /\ pc[p] = "run" /\ call[p].op = "UniqueList" /\ call[p].phase = "count"
    /\ inUse' = inUse - 1
    /\ UNCHANGED <<kind, options, db, files, schema, rows, openTx, txWork>>
    /\ IF ~schema
       THEN Return(p, Result("UniqueList", "query", Nil, 0))
       ELSE Return(p, Result("UniqueList", "", call[p].values,
                             CountDistinct(rows, call[p].opts)))

UniqueListInputs(p) ==
    IF p = MainCaller
    THEN {DefaultUniqueListOptions, [DefaultUniqueListOptions EXCEPT !.Domain = "d1", !.Limit = 1]}
    ELSE {}

\* ------------------------------------------------------------ the program
Next ==
    \/ \E ro \in BOOLEAN, cs \in BOOLEAN : EventStoreInit(ro, cs)
    \/ \E ro \in BOOLEAN, cs \in BOOLEAN : CommandStoreInit(ro, cs)
    \/ \E p \in Callers : \E evt \in CreateInputs(p, EventInputs, FirstEvent) :
           EventStoreCreate(p, evt)
    \/ \E p \in Callers : \E evt \in UpdateInputs(p, EventInputs) : EventStoreUpdate(p, evt)
    \/ \E p \in Callers : \E cmd \in CreateInputs(p, CommandInputs, FirstCommand) :
           CommandStoreCreate(p, cmd)
    \/ \E p \in Callers : \E cmd \in UpdateInputs(p, CommandInputs) : CommandStoreUpdate(p, cmd)
    \/ \E p \in Callers : TxBegin(p)
    \/ \E p \in Callers : TxPrepare(p)
    \/ \E p \in Callers : TxPrepareFail(p)
    \/ \E p \in Callers : TxExec(p)
    \/ \E p \in Callers : TxExecFail(p)
    \/ \E p \in Callers : TxStmtClose(p)
    \/ \E p \in Callers : TxStmtCloseFail(p)
    \/ \E p \in Callers : TxCommit(p)
    \/ \E p \in Callers : TxCommitFail(p)
    \/ \E p \in Callers : ConnAcquire(p)
    \/ \E p \in Callers : CtxDone(p)
    \/ \E p \in Callers : \E listOpts \in UniqueListInputs(p) : EventStoreUniqueList(p, listOpts)
    \/ \E p \in Callers : EventStoreUniqueListRows(p)
    \/ \E p \in Callers : EventStoreUniqueListCount(p)
    \/ \E p \in InfoCallers : EventStoreInfo(p)
    \/ \E p \in InfoCallers : CommandStoreInfo(p)
    \/ \E p \in Callers : StoreInfoCount(p)
    \/ \E p \in Callers : EventStoreInfoLast(p)
    \/ \E p \in Callers : CommandStoreInfoLast(p)
    \/ \E p \in Callers : \E uuid \in GetInputs(p) : EventStoreGet(p, uuid)
    \/ \E p \in Callers : \E uuid \in GetInputs(p) : CommandStoreGet(p, uuid)
    \/ \E p \in Callers : EventStoreGetRow(p)
    \/ \E p \in Callers : CommandStoreGetRow(p)
    \/ \E p \in Callers : \E uuid \in DeleteInputs(p) : EventStoreDelete(p, uuid)
    \/ \E p \in Callers : \E uuid \in DeleteInputs(p) : CommandStoreDelete(p, uuid)
    \/ \E p \in Callers : StoreDeleteExec(p)
    \/ \E p \in Callers : EventStoreTotal(p)
    \/ \E p \in Callers : CommandStoreTotal(p)
    \/ \E p \in Callers : StoreTotalRow(p)
    \/ EventStoreReset(MainCaller)
    \/ CommandStoreReset(MainCaller)
    \/ \E p \in Callers : \E listOpts \in ListInputs(p) : EventStoreList(p, listOpts)
    \/ \E p \in Callers : \E listOpts \in ListInputs(p) : CommandStoreList(p, listOpts)
    \/ \E p \in Callers : StoreListCount(p)
    \/ \E p \in Callers : EventStoreListRows(p)
    \/ \E p \in Callers : CommandStoreListRows(p)

Spec == Init /\ [][Next]_vars

\* -------------------------------------------------- List on stored tables
\* The tables List is applied to: short ones whose rows differ in every
\* filtered column and repeat created_at values, and long ones around the
\* default page size whose created_at values fall with the row id.
StoredRow(k, i, tenant, aggregate, domain, dataType, createdAt) ==
    IF k = "event"
    THEN [BaseEventToDbEvent(BaseEvent("u" \o ToString(i), tenant, createdAt, dataType,
                                       EmptyObjectJSON, Nil))
              EXCEPT !.ID = i, !.AggregateUuid = aggregate, !.Domain = domain]
    ELSE [BaseCommandToDbCommand(BaseCommand("u" \o ToString(i), tenant, createdAt, dataType,
                                             EmptyObjectJSON, Nil, Nil))
              EXCEPT !.ID = i, !.Domain = domain]

ShortTable(k, n) ==
    [i \in 1..n |->
        StoredRow(k, i,
                  IF i % 2 = 1 THEN "t1" ELSE "t2",
                  IF (i \div 2) % 2 = 0 THEN "a1" ELSE "a2",
                  IF (i \div 2) % 3 = 0 THEN "d1" ELSE IF (i \div 2) % 3 = 1 THEN "d2" ELSE "d3",
                  IF i % 3 = 0 THEN "U" ELSE "T",
                  IF i % 3 = 1 THEN 2000 ELSE IF i % 3 = 2 THEN 1000 ELSE 1500)]

LongTable(k, n) ==
    [i \in 1..n |-> StoredRow(k, i, IF i % 2 = 1 THEN "t1" ELSE "t2", "a1", "d1", "T", 2050 - i)]

StoredTables(k) ==
    {ShortTable(k, n) : n \in 0..MaxListRows}
    \cup {LongTable(k, n) : n \in (DefaultLimit - 1)..(DefaultLimit + MaxExtraRows)}

\* the options List is called with: every filter absent or present, bounds
\* that some created_at equals, pages inside, at and beyond the total
ListOptionSpace ==
    {[TenantUuid |-> tenant, AggregateUuid |-> aggregate, DataType |-> dataType,
      Domains |-> domain.set, Domain |-> domain.one,
      Before |-> before, After |-> after, Offset |-> offset, Limit |-> limit,
      OrderBy |-> "created_at", Ascending |-> TRUE] :
        tenant \in {"", "t1"}, aggregate \in {"", "a1"}, dataType \in {"", "T"},
        domain \in {[set |-> <<>>, one |-> ""], [set |-> <<"d1", "d3">>, one |-> "d1"]},
        before \in {-1, 2000}, after \in {-1, 1000},
        offset \in {0, 1, DefaultLimit}, limit \in {0, 2, DefaultLimit}}

\* the options UniqueList is called with: each kind of column and no column,
\* each filter absent or present, pages inside and beyond the values
UniqueListOptionSpace ==
    {[DbField |-> field, TenantUuid |-> tenant, Domain |-> domain,
      Offset |-> offset, Limit |-> limit, Ascending |-> ascending] :
        field \in {"tenant_uuid", "domain", "data_type", "created_at", ""},
        tenant \in {"", "t1"}, domain \in {"", "d1"},
        offset \in {-1, 0, 1}, limit \in {-1, 0, 2, DefaultLimit},
        ascending \in BOOLEAN}

ListInit ==
    /\ kind \in {"event", "command"}
    /\ options = [ReadOnly |-> FALSE, CryptoService |-> FALSE]
    /\ db = "open"
    /\ files = {"db"}
    /\ schema = TRUE
    /\ rows \in StoredTables(kind)
    /\ inUse = 0
    /\ openTx = {}
    /\ txWork = [p \in Callers |-> <<>>]
    /\ pc = [p \in Callers |-> "idle"]
    /\ call = [p \in Callers |-> NoCall]
    /\ ret = NoReturn

ListNext ==
    \/ \E listOpts \in ListOptionSpace : EventStoreList(MainCaller, listOpts)
    \/ \E listOpts \in ListOptionSpace : CommandStoreList(MainCaller, listOpts)
    \/ \E p \in Callers : ConnAcquire(p)
    \/ \E p \in Callers : StoreListCount(p)
    \/ \E p \in Callers : EventStoreListRows(p)
    \/ \E p \in Callers : CommandStoreListRows(p)
    \/ \E listOpts \in UniqueListOptionSpace : EventStoreUniqueList(MainCaller, listOpts)
    \/ \E p \in Callers : EventStoreUniqueListRows(p)
    \/ \E p \in Callers : EventStoreUniqueListCount(p)

ListSpec == ListInit /\ [][ListNext]_vars

\* ============================================================== properties
\* positions at which a caller holds the pool's connection
Holding == {"prepare", "exec", "close", "commit", "run"}

\* positions at which a caller waits for the pool's connection
Waiting == {"begin", "query"}

\* the step in which caller p's Create or Update returns success
WriteSucceeds(p, ops) ==
    /\ pc[p] = "commit"
    /\ call[p].op \in ops
    /\ ret' = Returned(p, Result(call[p].op, "", Nil, 0))

\* the record a caller gets back for a record it wrote: every scalar field,
\* the type name and the payload bytes as they were written
AsCreated(rec) ==
    IF kind = "event" THEN DbEventToBaseEvent(BaseEventToDbEvent(rec))
    ELSE DbCommandToBaseCommand(BaseCommandToDbCommand(rec)).cmd

\* the payload bytes of a record before any encryption
PlainPayload(rec) ==
    IF kind = "event" THEN BaseEventToDbEvent(rec).DataBytes
    ELSE BaseCommandToDbCommand(rec).DataBytes

\* what Get by uuid returns on a table
QueryRow(table, uuid) ==
    IF kind = "event" THEN EventQueryRow(table, uuid) ELSE CommandQueryRow(table, uuid)

\* the rows of the new table that the step wrote
WrittenRows(old, new) ==
    {new[i] : i \in 1..Len(new)} \ {old[i] : i \in 1..Len(old)}

\* C1: once Create(record) has succeeded, Get by the record's identifier
\* returns a record equal to the created one in payload bytes, type name and
\* every scalar field.
C1_CreateThenGet ==
    [][\A p \in Callers :
          WriteSucceeds(p, {"Create"}) =>
              QueryRow(rows', call[p].dbRecord.Uuid)
                  = Result("Get", "", AsCreated(call[p].rec), 0)]_vars

\* C2: when prepare or execute fails inside Create or Update, no row is
\* inserted or modified: the committed rows are those from before the call,
\* and the transaction holds no change that could become visible later.
C2_FailedWriteLeavesRows ==
    [][\A p \in Callers :
          (pc[p] \in {"prepare", "exec"} /\ ret'.caller = p
             /\ ret'.res.err \in {"prepare", "exec"}) =>
              /\ rows' = rows
              /\ schema' = schema
              /\ txWork'[p] = rows
              /\ \A uuid \in UuidInputs : QueryRow(rows', uuid) = QueryRow(rows, uuid)]_vars

C2_Witness ==
    /\ ret.res.op \in {"Create", "Update"}
    /\ ret.res.err \in {"prepare", "exec"}
    /\ rows # <<>>

\* C3: every transaction begun by Create or Update has been committed or
\* rolled back by the time the call returns: a caller whose transaction is
\* open is still inside the handler that began it.
C3_TxFinishedOnReturn ==
    \A p \in openTx : pc[p] \in {"prepare", "exec", "close", "commit"}

\* C4: at most one operation holds a connection at any instant; the pool
\* never hands out a second connection and the other callers wait.
C4_OneConnection ==
    /\ inUse <= 1
    /\ Cardinality({p \in Callers : pc[p] \in Holding}) <= 1
    /\ Cardinality(openTx) <= 1
    /\ \A p \in Callers : pc[p] = "run" => openTx = {}

C4_Witness ==
    \E p, q \in Callers : pc[p] \in Holding /\ pc[q] \in Waiting

\* C5: no two rows share the same unique identifier.
C5_UniqueUuid ==
    \A i, j \in 1..Len(rows) : i # j => rows[i].Uuid # rows[j].Uuid

\* C6: Create on a read-only store returns an error at once, whatever the
\* record, and the row count that Total reports is unchanged.
C6_ReadOnlyCreateFails ==
    [][\A p \in Callers :
          (options.ReadOnly
             /\ \/ \E rec \in EventInputs : EventStoreCreate(p, rec)
                \/ \E rec \in CommandInputs : CommandStoreCreate(p, rec)) =>
              /\ ret'.caller = p
              /\ ret'.res.op = "Create"
              /\ ret'.res.err # ""
              /\ pc'[p] = "idle"
              /\ CountRows(rows') = CountRows(rows)
              /\ rows' = rows]_vars

C6_Witness ==
    /\ options.ReadOnly
    /\ ret.res.op = "Create"
    /\ ret.res.err = "readonly"
    /\ CountRows(rows) > 0

\* C7: on a read-only store Update, Delete and Reset each return an error and
\* leave every row and every file as they were.
C7_ReadOnlyMutationsFail ==
    [][\A p \in Callers :
          (options.ReadOnly
             /\ \/ \E rec \in EventInputs : EventStoreUpdate(p, rec)
                \/ \E rec \in CommandInputs : CommandStoreUpdate(p, rec)
                \/ \E uuid \in UuidInputs : EventStoreDelete(p, uuid)
                \/ \E uuid \in UuidInputs : CommandStoreDelete(p, uuid)
                \/ EventStoreReset(p)
                \/ CommandStoreReset(p)) =>
              /\ ret'.caller = p
              /\ ret'.res.op \in {"Update", "Delete", "Reset"}
              /\ ret'.res.err # ""
              /\ pc'[p] = "idle"
              /\ rows' = rows
              /\ files' = files]_vars

C7_Witness ==
    /\ options.ReadOnly
    /\ ret.res.op \in {"Update", "Delete", "Reset"}
    /\ ret.res.err = "readonly"
    /\ rows # <<>>
    /\ files # {}

\* the records without a usable identifier: the absent record and the
\* records whose unique identifier is empty
UnidentifiedEvents == {rec \in EventInputs : rec = Nil \/ rec.EventUuid = ""}

UnidentifiedCommands == {rec \in CommandInputs : rec = Nil \/ rec.CommandUuid = ""}

\* C8: Create and Update with an absent record or an empty identifier, and
\* Delete with an empty identifier, return an error and change no row.
C8_InvalidArgumentFails ==
    [][\A p \in Callers :
          (\/ \E rec \in UnidentifiedEvents :
                 EventStoreCreate(p, rec) \/ EventStoreUpdate(p, rec)
           \/ \E rec \in UnidentifiedCommands :
                 CommandStoreCreate(p, rec) \/ CommandStoreUpdate(p, rec)
           \/ EventStoreDelete(p, "")
           \/ CommandStoreDelete(p, "")) =>
              /\ ret'.caller = p
              /\ ret'.res.err # ""
              /\ pc'[p] = "idle"
              /\ rows' = rows
              /\ txWork' = txWork]_vars

C8_Witness ==
    /\ ~options.ReadOnly
    /\ ret.res.op \in {"Create", "Update", "Delete"}
    /\ ret.res.err \in {"nil", "uuid"}
    /\ rows # <<>>

\* C9: with a crypto service configured, every payload that Create or Update
\* writes is stored as the hex text of its ciphertext, never as plain text.
C9_PayloadStoredEncrypted ==
    [][\A p \in Callers :
          (options.CryptoService /\ WriteSucceeds(p, {"Create", "Update"})) =>
              \A row \in WrittenRows(rows, rows') :
                  /\ row.DataBytes
                       = EncodeToString(CryptoEncrypt(PlainPayload(call[p].rec)).bytes)
                  /\ row.DataBytes # PlainPayload(call[p].rec)]_vars

\* C10: with a crypto service configured, a non-empty payload written by
\* Create or Update comes back exactly from Get, and hex-decoding then
\* decrypting the stored text recovers it.
C10_EncryptedRoundTrip ==
    [][\A p \in Callers :
          (options.CryptoService /\ WriteSucceeds(p, {"Create", "Update"})
             /\ PlainPayload(call[p].rec) # <<>>
             /\ SelectWhereUuid(rows', call[p].dbRecord.Uuid) # <<>>) =>
              /\ LET got == QueryRow(rows', call[p].dbRecord.Uuid)
                 IN /\ got.err = ""
                    /\ got.val # Nil
                    /\ (IF kind = "event" THEN got.val.DomainEvtBytes
                        ELSE got.val.DomainCmdBytes) = PlainPayload(call[p].rec)
              /\ \A row \in WrittenRows(rows, rows') :
                    decryptDomainData(row)
                       = [err |-> FALSE,
                          rec |-> [row EXCEPT !.DataBytes = PlainPayload(call[p].rec)]]]_vars

\* the records with an identifier whose payload converts to no bytes at all
EmptyPayloadEvents ==
    {rec \in EventInputs \ {Nil} :
        rec.EventUuid # "" /\ BaseEventToDbEvent(rec).DataBytes = <<>>}

EmptyPayloadCommands ==
    {rec \in CommandInputs \ {Nil} :
        rec.CommandUuid # "" /\ BaseCommandToDbCommand(rec).DataBytes = <<>>}

\* Create or Update of caller p with an empty payload and a crypto service
\* comes straight back with an error
EmptyPayloadRejected(p) ==
    (options.CryptoService /\ ~options.ReadOnly
       /\ \/ \E rec \in EmptyPayloadEvents :
                EventStoreCreate(p, rec) \/ EventStoreUpdate(p, rec)
          \/ \E rec \in EmptyPayloadCommands :
                CommandStoreCreate(p, rec) \/ CommandStoreUpdate(p, rec)) =>
        /\ ret'.caller = p
        /\ ret'.res.err # ""
        /\ pc'[p] = "idle"
        /\ rows' = rows
        /\ txWork' = txWork

\* C11: on a writable store with a crypto service, Create or Update of a
\* record with an empty payload returns an error at once (the cipher, which
\* would accept the empty text, is never asked) and neither begins a
\* transaction nor changes a row.
C11_EmptyPayloadRejected == [][\A p \in Callers : EmptyPayloadRejected(p)]_vars

\* a stored payload that cannot be opened: empty, not hex text, or hex text
\* of bytes the cipher rejects
Undecryptable(row) ==
    \/ row.DataBytes = <<>>
    \/ DecodeString(row.DataBytes).err
    \/ CryptoDecrypt(DecodeString(row.DataBytes).bytes).err

\* the step in which caller p's Get reads its row
GetReads(p) == pc[p] = "run" /\ call[p].op = "Get" /\ ret'.caller = p

\* the step in which caller p's List reads its page
ListReads(p) ==
    pc[p] = "run" /\ call[p].op = "List" /\ call[p].phase = "page" /\ ret'.caller = p

\* a Get or List of caller p that meets a payload it cannot open returns an
\* error and no record
UndecryptableRowAborts(p) ==
    /\ (options.CryptoService /\ schema /\ GetReads(p)
          /\ SelectWhereUuid(rows, call[p].uuid) # <<>>
          /\ Undecryptable(SelectWhereUuid(rows, call[p].uuid)[1])) =>
           /\ ret'.res.err # ""
           /\ ret'.res.val = Nil
    /\ (options.CryptoService /\ ListReads(p)
          /\ \A page \in SelectPage(rows, call[p].where, call[p].opts) :
                \E i \in 1..Len(page) : Undecryptable(page[i])) =>
           /\ ret'.res.err # ""
           /\ ret'.res.val = Nil
           /\ ret'.res.n = 0

\* C12: with a crypto service, when the row Get fetches, or some row of
\* every page List can fetch, has a payload that cannot be opened, the call
\* returns an error and no record.
C12_UndecryptableRowAborts == [][\A p \in Callers : UndecryptableRowAborts(p)]_vars

Min(a, b) == IF a < b THEN a ELSE b

Max(a, b) == IF a > b THEN a ELSE b

\* the record a stored row is handed back as when nothing is encrypted
AsReturned(row) ==
    IF kind = "event" THEN DbEventToBaseEvent(row) ELSE DbCommandToBaseCommand(row).cmd

RecordUuid(rec) == IF kind = "event" THEN rec.EventUuid ELSE rec.CommandUuid

\* List with no options, read by caller p
DefaultList(p) ==
    (ListReads(p) /\ call[p].opts = DefaultListOptions) =>
        LET page == ret'.res.val
            n == Len(rows)
            Left == {j \in 1..n : \A i \in 1..Len(page) : page[i] # AsReturned(rows[j])}
        IN /\ ret'.res.err = ""
           /\ ret'.res.n = n
           /\ Len(page) = Min(n, 100)
           /\ \A i \in 1..(Len(page) - 1) : page[i].CreatedAt <= page[i + 1].CreatedAt
           /\ \A i \in 1..Len(page) : \E j \in 1..n : page[i] = AsReturned(rows[j])
           /\ \A i, j \in 1..Len(page) : i # j => RecordUuid(page[i]) # RecordUuid(page[j])
           /\ \A j \in Left : \A i \in 1..Len(page) : page[i].CreatedAt <= rows[j].CreatedAt

\* C13: List with no options returns the first min(n, 100) of the n stored
\* rows in ascending created_at order (no stored row left out is older than
\* a returned one), and its total is n even when n is more than 100.
C13_DefaultList == [][\A p \in Callers : DefaultList(p)]_vars

C13_Witness ==
    /\ ret.res.op = "List"
    /\ ret.res.err = ""
    /\ ret.res.n > 100
    /\ Len(ret.res.val) = 100
    /\ Len(rows) = ret.res.n

\* what the filters of List ask of a row: each supplied filter, and nothing
\* for an absent one
Satisfies(row, o) ==
    /\ o.TenantUuid = "" \/ row.TenantUuid = o.TenantUuid
    /\ kind = "event" => (o.AggregateUuid = "" \/ row.AggregateUuid = o.AggregateUuid)
    /\ o.DataType = "" \/ row.DataType = o.DataType
    /\ kind = "event" =>
          (o.Domains = <<>> \/ row.Domain \in {o.Domains[i] : i \in 1..Len(o.Domains)})
    /\ kind = "command" => (o.Domain = "" \/ row.Domain = o.Domain)
    /\ o.Before < 0 \/ row.CreatedAt < o.Before
    /\ o.After < 0 \/ row.CreatedAt > o.After

Satisfying(table, o) == {j \in 1..Len(table) : Satisfies(table[j], o)}

\* the page caller p reads holds rows that satisfy the filters, and all of
\* them when the page is large enough
ListFilters(p) ==
    ListReads(p) =>
        LET o == call[p].opts
            page == ret'.res.val
            hits == Satisfying(rows, o)
        IN /\ ret'.res.err = ""
           /\ \A i \in 1..Len(page) : \E j \in hits : page[i] = AsReturned(rows[j])
           /\ (o.Offset = 0 /\ o.Limit >= Cardinality(hits)) =>
                 \A j \in hits : \E i \in 1..Len(page) : page[i] = AsReturned(rows[j])

\* C14: List returns exactly the rows that satisfy every supplied filter at
\* once; an absent filter excludes nothing and a row whose created_at equals
\* Before or After is excluded.
C14_ListFilters == [][\A p \in Callers : ListFilters(p)]_vars

C14_Witness ==
    \E p \in Callers :
        /\ pc[p] = "run" /\ call[p].op = "List" /\ call[p].phase = "page"
        /\ call[p].opts.TenantUuid # ""
        /\ call[p].opts.Before >= 0
        /\ \E i \in 1..Len(rows) :
              rows[i].CreatedAt = call[p].opts.Before
              /\ rows[i].TenantUuid = call[p].opts.TenantUuid
        /\ call[p].queryTotal > 0
        /\ call[p].queryTotal < Len(rows)

\* the total and the size of the page caller p reads
TotalAndPageSize(p) ==
    (ListReads(p) /\ call[p].opts.Limit >= 0 /\ call[p].opts.Offset >= 0) =>
        /\ ret'.res.err = ""
        /\ ret'.res.n = Cardinality(Satisfying(rows, call[p].opts))
        /\ Len(ret'.res.val)
             = Min(call[p].opts.Limit, Max(0, ret'.res.n - call[p].opts.Offset))

\* C15: for non-negative limit and offset the total List returns is the
\* number of rows matching the filters, whatever the limit and offset, and
\* the page has min(limit, max(0, total - offset)) rows.
C15_TotalAndPageSize == [][\A p \in Callers : TotalAndPageSize(p)]_vars

C15_Witness ==
    /\ ret.res.op = "List"
    /\ ret.res.err = ""
    /\ ret.res.n = 3
    /\ Len(ret.res.val) = 2
    /\ Len(rows) > 3

\* the step in which caller p's List counts the matching rows
ListCounts(p) ==
    pc[p] = "run" /\ call[p].op = "List" /\ call[p].phase = "count" /\ pc'[p] # pc[p]

\* a Get or List of caller p that finds no row comes back empty without an
\* error
NotFoundIsEmpty(p) ==
    /\ (schema /\ GetReads(p)
          /\ IF call[p].uuid = "" THEN rows = <<>>
             ELSE \A i \in 1..Len(rows) : rows[i].Uuid # call[p].uuid) =>
           ret'.res = Result("Get", "", Nil, 0)
    /\ (schema /\ ListCounts(p) /\ Satisfying(rows, call[p].opts) = {}) =>
           /\ ret' = NoReturn
           /\ call'[p].queryTotal = 0
    /\ (ListReads(p) /\ Satisfying(rows, call[p].opts) = {} /\ call[p].queryTotal = 0) =>
           ret'.res = Result("List", "", <<>>, 0)

\* C16: when no row matches, Get returns the empty result without an error
\* and List returns an empty page with total 0 without an error.
C16_NotFoundIsEmpty == [][\A p \in Callers : NotFoundIsEmpty(p)]_vars

C16_Witness ==
    /\ rows # <<>>
    /\ ret.res.op \in {"Get", "List"}
    /\ ret.res.err = ""
    /\ ret.res.val \in {Nil, <<>>}
    /\ ret.res.n = 0

\* caller p's transaction is at one of its steps and its statement is op
InTx(p, op) ==
    pc[p] \in {"prepare", "exec", "close", "commit"} /\ call[p].op = op

\* whether a row with the identifier of caller p's record is stored
Stored(p) == \E i \in 1..Len(rows) : rows[i].Uuid = call[p].dbRecord.Uuid

\* the identifiers of a table, row by row
Identifiers(table) == [i \in 1..Len(table) |-> [ID |-> table[i].ID, Uuid |-> table[i].Uuid]]

\* an Update of the event store that succeeds for caller p on a stored
\* identifier
EventUpdateReplaces(p) ==
    (kind = "event" /\ WriteSucceeds(p, {"Update"}) /\ Stored(p)) =>
        /\ QueryRow(rows', call[p].dbRecord.Uuid)
             = Result("Get", "", AsCreated(call[p].rec), 0)
        /\ Identifiers(rows') = Identifiers(rows)
        /\ \A i \in 1..Len(rows) :
              rows[i].Uuid = call[p].dbRecord.Uuid =>
                  rows'[i] = [call[p].dbRecord EXCEPT !.ID = rows[i].ID]

\* C17: Update of the event store on an existing identifier replaces every
\* stored field but the identifier with the record's values: a Get by that
\* identifier returns the updated values and no identifier changes.
C17_EventUpdateReplaces == [][\A p \in Callers : EventUpdateReplaces(p)]_vars

C17_Witness ==
    /\ kind = "event"
    /\ ret.res.op = "Update"
    /\ ret.res.err = ""
    /\ \E i \in 1..Len(rows) :
          rows[i].Uuid = "e1" /\ rows[i].TenantUuid = "t2" /\ rows[i].DataType = "int"

\* C18: Update of the command store on an existing identifier succeeds: its
\* statement can be prepared, and once committed a Get by the identifier
\* returns the updated payload and fields.
C18_CommandUpdateSucceeds ==
    \A p \in Callers :
        (kind = "command" /\ schema /\ pc[p] = "prepare" /\ call[p].op = "Update"
           /\ Stored(p)) => ENABLED TxPrepare(p)

\* an Update of caller p whose identifier matches no row goes through and
\* changes nothing
UpdateOfMissing(p) ==
    (InTx(p, "Update") /\ schema /\ ~Stored(p)) =>
        /\ rows' = rows
        /\ pc[p] = "prepare" => ENABLED TxPrepare(p)
        /\ (pc[p] = "commit" /\ ret'.caller = p /\ ret'.res.err = "") => rows' = txWork[p]

\* C19: Update of a record whose identifier matches no stored row returns
\* success and leaves the store unchanged.
C19_UpdateOfMissing == [][\A p \in Callers : UpdateOfMissing(p)]_vars

\* a Delete of caller p runs its statement
DeleteRuns(p) == pc[p] = "run" /\ call[p].op = "Delete" /\ ret'.caller = p

\* a Delete of caller p that matches no row
DeleteOfMissing(p) ==
    /\ (DeleteRuns(p) /\ schema /\ \A i \in 1..Len(rows) : rows[i].Uuid # call[p].uuid) =>
           /\ ret'.res = Result("Delete", "", Nil, 0)
           /\ rows' = rows
           /\ CountRows(rows') = CountRows(rows)
    /\ (DeleteRuns(p) /\ ret'.res.err = "") =>
           \A i \in 1..Len(rows') : rows'[i].Uuid # call[p].uuid

\* C20: Delete of an identifier that matches no stored row returns success
\* and leaves the rows and the count of Total unchanged; after a successful
\* Delete the identifier matches no row, so a repeated Delete is such a call.
C20_DeleteOfMissing == [][\A p \in Callers : DeleteOfMissing(p)]_vars

C20_Witness ==
    \E p \in Callers :
        /\ pc[p] = "run" /\ call[p].op = "Delete"
        /\ rows # <<>>
        /\ \A i \in 1..Len(rows) : rows[i].Uuid # call[p].uuid

\* a Delete of caller p that succeeds
DeleteRemoves(p) ==
    (DeleteRuns(p) /\ ret'.res.err = "") =>
        LET kept == {i \in 1..Len(rows) : rows[i].Uuid # call[p].uuid}
        IN /\ \A i \in 1..Len(rows') : rows'[i].Uuid # call[p].uuid
           /\ QueryRow(rows', call[p].uuid) = Result("Get", "", Nil, 0)
           /\ Len(rows') = Cardinality(kept)
           /\ \A i \in kept : \E j \in 1..Len(rows') : rows'[j] = rows[i]
           /\ Cardinality({i \in 1..Len(rows) : rows[i].Uuid = call[p].uuid}) = 1 =>
                 CountRows(rows') = CountRows(rows) - 1

\* C21: after a successful Delete(id) no row with identifier id remains (Get
\* by id is empty), every row with another identifier is unchanged, and when
\* one row had the identifier the count is one less.
C21_DeleteRemoves == [][\A p \in Callers : DeleteRemoves(p)]_vars

C21_Witness ==
    /\ ret.res.op = "Delete"
    /\ ret.res.err = ""
    /\ rows # <<>>
    /\ rows[1].ID > 1

\* the step in which caller p's Total returns
TotalReturns(p) == call[p].op = "Total" /\ ret'.caller = p

\* Total of caller p: the number of rows, or 0 when the query did not run
TotalCounts(p) ==
    TotalReturns(p) =>
        /\ ret'.res.err = ""
        /\ ret'.res.val = Nil
        /\ ret'.res.n = IF pc[p] = "run" /\ schema THEN Len(rows) ELSE 0

\* C22: Total returns the number of rows currently in the store, and 0, never
\* an error, when its count query fails.
C22_TotalCounts == [][\A p \in Callers : TotalCounts(p)]_vars

C22_Witness ==
    /\ ret.res.op = "Total"
    /\ ~schema
    /\ ret.res.n = 0
    /\ options.ReadOnly

\* C25: once Reset has succeeded on a writable store (no file with the
\* storage path is left), Total on that store returns 0.
C25_ResetEmptiesStore ==
    [][\A p \in Callers :
          /\ (ret'.caller = p /\ ret'.res.op = "Reset" /\ ret'.res.err = "") => files' = {}
          /\ (TotalReturns(p) /\ files = {}) => ret'.res.n = 0]_vars

\* C27: a row's surrogate identifier never changes, an inserted row gets an
\* identifier beyond every identifier in the table, and the identifier the
\* engine assigns next never falls back, so no value is given out twice.
C27_RowIdNeverReused ==
    [][/\ \A i \in 1..Len(rows) : \A j \in 1..Len(rows') :
             rows'[j].ID = rows[i].ID => rows'[j].Uuid = rows[i].Uuid
       /\ NextRowId(rows') >= NextRowId(rows)]_vars

\* Init of a read-only store and the first reads on a missing table
ReadOnlyInit ==
    /\ (db = "nil" /\ db' = "open" /\ options'.ReadOnly) =>
           /\ schema' = schema
           /\ rows' = rows
           /\ ret' = NoReturn
    /\ \A p \in Callers :
          (~schema /\ pc[p] = "run" /\ call[p].op \in {"Get", "List"} /\ pc'[p] # pc[p]) =>
              /\ ret'.caller = p
              /\ ret'.res.err # ""
              /\ ret'.res.val = Nil

\* C28: Init of a read-only store creates no table; with the table absent
\* Init still succeeds and Get and List on the missing table return an error.
C28_ReadOnlyInit == [][ReadOnlyInit]_vars

C28_Witness ==
    /\ options.ReadOnly
    /\ db = "open"
    /\ ~schema
    /\ ret.res.op \in {"Get", "List"}
    /\ ret.res.err = "query"

\* the step in which caller p's Info returns after its queries ran
InfoReturns(p) ==
    /\ call[p].op = "Info"
    /\ pc[p] = "run"
    /\ ret'.caller = p

\* Info of caller p on a store whose table exists
InfoReports(p) ==
    (InfoReturns(p) /\ schema) =>
        /\ ret'.res.err = ""
        /\ ret'.res.val.NumItems = call[p].dbTotal
        /\ ret'.res.val.LastItemCreatedAt = Coalesce(MaxCreatedAt(rows), 0).int
        /\ rows = <<>> => ret'.res.val.LastItemCreatedAt = 0

\* C23: on an initialized store of either kind Info succeeds, NumItems is the
\* row count read by its count query and LastItemCreatedAt is the largest
\* created_at of the rows, 0 when there is none.
C23_InfoReports ==
    [][\A p \in Callers :
          /\ InfoReports(p)
          /\ (pc[p] = "run" /\ call[p].op = "Info" /\ call[p].phase = "count"
                  /\ pc'[p] # pc[p] /\ schema) =>
                 call'[p].dbTotal = Len(rows)]_vars

\* C24 as stated: Info never returns an error, a failed query yields
\* default values.
C24_InfoBestEffort ==
    [][\A p \in Callers :
          (call[p].op = "Info" /\ ret'.caller = p) =>
              /\ ret'.res.err = ""
              /\ ret'.res.val # Nil]_vars

\* Info of caller p returns: a failed query is reported to the caller
InfoPropagates(p) ==
    (call[p].op = "Info" /\ ret'.caller = p) =>
        /\ (pc[p] = "query" \/ ~schema) => ret'.res.err # ""
        /\ ret'.res.err # "" <=> ret'.res.val = Nil

\* C24 amended: when a query of Info fails (the table is missing, the context
\* ended), Info returns the error and no info; it returns info only without
\* an error.
C24_InfoPropagates == [][\A p \in Callers : InfoPropagates(p)]_vars

C24_Witness ==
    /\ ret.res.op = "Info"
    /\ ret.res.err = "query"
    /\ ret.res.val = Nil
    /\ ~schema

\* the rows UniqueList's filters select
Filtered(table, o) ==
    {i \in 1..Len(table) :
        /\ o.TenantUuid # "" => table[i].TenantUuid = o.TenantUuid
        /\ o.Domain # "" => table[i].Domain = o.Domain}

\* UniqueList of caller p returns after both of its queries ran
UniqueListReturns(p) ==
    /\ pc[p] = "run"
    /\ call[p].op = "UniqueList"
    /\ call[p].phase = "count"
    /\ ret'.caller = p

UniqueValues(p) ==
    UniqueListReturns(p) =>
        LET o == call[p].opts
            Values == {ScanString(o.DbField, Column(rows[i], o.DbField)) : i \in Filtered(rows, o)}
            page == ret'.res.val
            skipped == Min(Max(o.Offset, 0), Cardinality(Values))
        IN /\ ret'.res.err = ""
           /\ ret'.res.n = Cardinality(Values)
           /\ \A i \in 1..Len(page) : page[i] \in Values
           /\ \A i, j \in 1..Len(page) : page[i] = page[j] => i = j
           /\ Len(page) = IF o.Limit < 0 THEN Cardinality(Values) - skipped
                          ELSE Min(o.Limit, Cardinality(Values) - skipped)

BinaryPayload == <<0, 255, 39>>

\* the records the source store was filled with
SourceInputs ==
    IF kind = "event"
    THEN {evt \in EventInputs \ {Nil} : evt.EventUuid # ""}
         \cup {BaseEvent("e3", "t3", 3000, "N", BinaryPayload, Nil)}
    ELSE {cmd \in CommandInputs \ {Nil} : cmd.CommandUuid # ""}
         \cup {BaseCommand("e3", "t3", 3000, "N", BinaryPayload, Nil, [sender |-> 0])}

\* the row Create makes of a record before it is inserted
StoredAs(rec) ==
    IF kind = "command" THEN [err |-> FALSE, rec |-> BaseCommandToDbCommand(rec)]
    ELSE IF HasCryptoService THEN encryptDomainData(BaseEventToDbEvent(rec))
    ELSE [err |-> FALSE, rec |-> BaseEventToDbEvent(rec)]

\* the rows of the source store
SourceRows == {StoredAs(rec).rec : rec \in {r \in SourceInputs : ~StoredAs(r).err}}

\* what Get and List return of one row
ReadRow(row) ==
    IF kind = "event" THEN EventQueryRow(<<row>>, row.Uuid) ELSE CommandQueryRow(<<row>>, row.Uuid)

\* the records the copy reads from the source store
SourceRecords == {ReadRow(row).val : row \in {r \in SourceRows : ReadRow(r).err = ""}}

CopyInit ==
    /\ kind \in {"event", "command"}
    /\ options \in {[ReadOnly |-> FALSE, CryptoService |-> cs] : cs \in BOOLEAN}
    /\ db = "open"
    /\ files = {"db"}
    /\ schema = TRUE
    /\ rows = <<>>
    /\ inUse = 0
    /\ openTx = {}
    /\ txWork = [p \in Callers |-> <<>>]
    /\ pc = [p \in Callers |-> "idle"]
    /\ call = [p \in Callers |-> NoCall]
    /\ ret = NoReturn

CopyNext ==
    \/ \E evt \in SourceRecords : EventStoreCreate(MainCaller, evt)
    \/ \E cmd \in SourceRecords : CommandStoreCreate(MainCaller, cmd)
    \/ \E p \in Callers : TxBegin(p)
    \/ \E p \in Callers : TxPrepare(p)
    \/ \E p \in Callers : TxExec(p)
    \/ \E p \in Callers : TxStmtClose(p)
    \/ \E p \in Callers : TxCommit(p)
    \/ \E rec \in SourceRecords : EventStoreGet(MainCaller, rec.EventUuid)
    \/ \E rec \in SourceRecords : CommandStoreGet(MainCaller, rec.CommandUuid)
    \/ EventStoreList(MainCaller, DefaultListOptions)
    \/ CommandStoreList(MainCaller, DefaultListOptions)
    \/ \E p \in Callers : ConnAcquire(p)
    \/ \E p \in Callers : EventStoreGetRow(p)
    \/ \E p \in Callers : CommandStoreGetRow(p)
    \/ \E p \in Callers : StoreListCount(p)
    \/ \E p \in Callers : EventStoreListRows(p)
    \/ \E p \in Callers : CommandStoreListRows(p)

CopySpec == CopyInit /\ [][CopyNext]_vars

\* a record of the source written by caller p, and the records the
\* destination is read as
CopyKeepsRecords(p) ==
    /\ WriteSucceeds(p, {"Create"}) =>
           /\ Len(rows') = Len(rows) + 1
           /\ ReadRow(rows'[Len(rows')]) = Result("Get", "", call[p].rec, 0)
    /\ (GetReads(p) /\ \E i \in 1..Len(rows) : rows[i].Uuid = call[p].uuid) =>
           /\ ret'.res.err = ""
           /\ ret'.res.val \in SourceRecords
           /\ RecordUuid(ret'.res.val) = call[p].uuid
    /\ ListReads(p) =>
           /\ ret'.res.err = ""
           /\ Len(ret'.res.val) = Len(rows)
           /\ \A i \in 1..Len(rows) : ret'.res.val[i] \in SourceRecords

\* C26: a record read from a source store and written with Create into an
\* empty store of the same kind is read back from the destination equal to
\* the source record in every field, the payload bytes included.
C26_CopyKeepsRecords == [][\A p \in Callers : CopyKeepsRecords(p)]_vars

C26_Witness ==
    /\ Len(rows) > 1
    /\ rows[1].Uuid # rows[2].Uuid
    /\ ret.res.op = "Get"
    /\ ret.res.val \in SourceRecords
    /\ RecordUuid(ret.res.val) = rows[2].Uuid
    /\ ReadRow(rows[2]).val = ret.res.val
    /\ ReadRow(rows[1]).val \in SourceRecords

\* ------------------------------------------- strings with quote characters
\* Get, List, Delete and UniqueList are called with values that hold quote
\* characters on a store one of whose rows has such an identifier.
QuotedInputs == {"O'Brien", "' OR ''='"}

QuoteTable(k, n) ==
    [i \in 1..n |->
        [StoredRow(k, i, IF i % 2 = 1 THEN "t1" ELSE "t2", "a1", "d1", "T", 1000 + i)
            EXCEPT !.Uuid = IF i = 2 THEN "O'Brien" ELSE "e" \o ToString(i)]]

QuoteInit ==
    /\ kind \in {"event", "command"}
    /\ options = [ReadOnly |-> FALSE, CryptoService |-> FALSE]
    /\ db = "open"
    /\ files = {"db"}
    /\ schema = TRUE
    /\ rows \in {QuoteTable(kind, n) : n \in 2..(MaxRowId + 1)}
    /\ inUse = 0
    /\ openTx = {}
    /\ txWork = [p \in Callers |-> <<>>]
    /\ pc = [p \in Callers |-> "idle"]
    /\ call = [p \in Callers |-> NoCall]
    /\ ret = NoReturn

QuoteNext ==
    \/ \E uuid \in QuotedInputs \cup {"e1"} : EventStoreGet(MainCaller, uuid)
    \/ \E uuid \in QuotedInputs \cup {"e1"} : CommandStoreGet(MainCaller, uuid)
    \/ \E uuid \in QuotedInputs \cup {"e1"} : EventStoreDelete(MainCaller, uuid)
    \/ \E uuid \in QuotedInputs \cup {"e1"} : CommandStoreDelete(MainCaller, uuid)
    \/ \E tenant \in QuotedInputs \cup {"t1"}, dataType \in {"", "U"} :
           EventStoreList(MainCaller, [DefaultListOptions EXCEPT !.TenantUuid = tenant,
                                                                 !.DataType = dataType])
    \/ \E tenant \in QuotedInputs \cup {"t1"}, dataType \in {"", "U"} :
           CommandStoreList(MainCaller, [DefaultListOptions EXCEPT !.TenantUuid = tenant,
                                                                   !.DataType = dataType])
    \/ \E tenant \in QuotedInputs \cup {"t1"} :
           EventStoreUniqueList(MainCaller, [DefaultUniqueListOptions EXCEPT
                                                 !.DbField = "domain", !.TenantUuid = tenant])
    \/ \E p \in Callers : ConnAcquire(p)
    \/ \E p \in Callers : EventStoreGetRow(p)
    \/ \E p \in Callers : CommandStoreGetRow(p)
    \/ \E p \in Callers : StoreDeleteExec(p)
    \/ \E p \in Callers : StoreListCount(p)
    \/ \E p \in Callers : EventStoreListRows(p)
    \/ \E p \in Callers : CommandStoreListRows(p)
    \/ \E p \in Callers : EventStoreUniqueListRows(p)
    \/ \E p \in Callers : EventStoreUniqueListCount(p)

QuoteSpec == QuoteInit /\ [][QuoteNext]_vars

\* a call of caller p touches only the rows whose column is the given string
ExactValueOnly(p) ==
    /\ (GetReads(p) /\ call[p].uuid # "" /\ ret'.res.val # Nil) =>
           RecordUuid(ret'.res.val) = call[p].uuid
    /\ DeleteRuns(p) =>
           \A i \in 1..Len(rows) :
               rows[i].Uuid # call[p].uuid => \E j \in 1..Len(rows') : rows'[j] = rows[i]
    /\ (ListReads(p) /\ call[p].opts.TenantUuid # "" /\ ret'.res.err = "") =>
           \A i \in 1..Len(ret'.res.val) :
               ret'.res.val[i].TenantUuid = call[p].opts.TenantUuid
    /\ (UniqueListReturns(p) /\ call[p].opts.TenantUuid # "") =>
           ret'.res.n = Cardinality({rows[i].Domain : i \in Filtered(rows, call[p].opts)})

\* C29: whatever string a caller passes as identifier or tenant, quote
\* characters included, Get, List, Delete and UniqueList return, count and
\* delete only rows whose column equals exactly that string.
C29_ExactValueOnly == [][\A p \in Callers : ExactValueOnly(p)]_vars

\* ------------------------------------------------------ List page by page
\* List on the short stored tables with limits and offsets that are negative,
\* zero, inside and beyond the rows.
PageOptionSpace ==
    {[DefaultListOptions EXCEPT !.TenantUuid = tenant, !.Limit = limit,
                                !.Offset = offset, !.Ascending = ascending] :
        tenant \in {"", "t1"}, limit \in -1..(MaxListRows - 1),
        offset \in -1..MaxListRows, ascending \in BOOLEAN}

PageInit ==
    /\ kind \in {"event", "command"}
    /\ options = [ReadOnly |-> FALSE, CryptoService |-> FALSE]
    /\ db = "open"
    /\ files = {"db"}
    /\ schema = TRUE
    /\ rows \in {ShortTable(kind, n) : n \in 0..MaxListRows}
    /\ inUse = 0
    /\ openTx = {}
    /\ txWork = [p \in Callers |-> <<>>]
    /\ pc = [p \in Callers |-> "idle"]
    /\ call = [p \in Callers |-> NoCall]
    /\ ret = NoReturn

PageNext ==
    \/ \E listOpts \in PageOptionSpace : EventStoreList(MainCaller, listOpts)
    \/ \E listOpts \in PageOptionSpace : CommandStoreList(MainCaller, listOpts)
    \/ \E p \in Callers : ConnAcquire(p)
    \/ \E p \in Callers : StoreListCount(p)
    \/ \E p \in Callers : EventStoreListRows(p)
    \/ \E p \in Callers : CommandStoreListRows(p)

PageSpec == PageInit /\ [][PageNext]_vars

\* a List of caller p whose limit or offset is negative
SuppressedClause(p) ==
    (ListReads(p) /\ (call[p].opts.Limit < 0 \/ call[p].opts.Offset < 0)) =>
        LET o == call[p].opts
            hits == Cardinality(Satisfying(rows, o))
            from == Min(Max(o.Offset, 0), hits)
        IN /\ ret'.res.err = ""
           /\ ret'.res.n = hits
           /\ Len(ret'.res.val) = IF o.Limit < 0 THEN hits - from ELSE Min(o.Limit, hits - from)

\* C31: List with a negative limit succeeds and returns every matching row
\* from the offset onward, List with a negative offset starts at the first
\* matching row; neither fails, whatever the other value is.
C31_SuppressedClause == [][\A p \in Callers : SuppressedClause(p)]_vars

\* the pages List can return for offsets 0, L, 2L, ... up to the total
PageRuns(table, o) ==
    LET whereList == IF kind = "event" THEN EventWhereList(o) ELSE CommandWhereList(o)
        total == CountWhere(table, whereList)
        last == (total + o.Limit - 1) \div o.Limit
        PagesAt(k) == SelectPage(table, whereList, [o EXCEPT !.Offset = (k - 1) * o.Limit])
    IN {run \in [1..last -> UNION {PagesAt(k) : k \in 1..last}] :
           \A k \in 1..last : run[k] \in PagesAt(k)}

\* how often a row comes in the pages of a run
Occurrences(run, row) ==
    Cardinality({<<k, i>> \in (DOMAIN run) \X (1..MaxListRows) :
                    i <= Len(run[k]) /\ run[k][i] = row})

ConvertInputs ==
    IF kind = "event"
    THEN {BaseEvent("e1", "t1", 1000, name, bytes, obj) :
             name \in {"", "T"}, bytes \in {<<>>, EmptyObjectJSON}, obj \in {Nil, [int |-> 7]}}
    ELSE {BaseCommand("e1", "t1", 1000, name, bytes, obj, reqCtx) :
             name \in {"", "T"}, bytes \in {<<>>, EmptyObjectJSON}, obj \in {Nil, [int |-> 7]},
             reqCtx \in {Nil, [sender |-> 4]}}

ConvertNext ==
    \/ \E evt \in ConvertInputs : EventStoreCreate(MainCaller, evt)
    \/ \E cmd \in ConvertInputs : CommandStoreCreate(MainCaller, cmd)
    \/ \E evt \in ConvertInputs : EventStoreUpdate(MainCaller, evt)
    \/ \E cmd \in ConvertInputs : CommandStoreUpdate(MainCaller, cmd)
    \/ \E p \in Callers : TxBegin(p)
    \/ \E p \in Callers : TxPrepare(p)
    \/ \E p \in Callers : TxPrepareFail(p)
    \/ \E p \in Callers : TxExec(p)
    \/ \E p \in Callers : TxStmtClose(p)
    \/ \E p \in Callers : TxCommit(p)

ConvertSpec == CopyInit /\ [][ConvertNext]_vars

\* the name, raw bytes and structured object of a record of either kind
PayloadOf(rec) ==
    IF kind = "event"
    THEN [name |-> rec.DomainEvtName, bytes |-> rec.DomainEvtBytes, obj |-> rec.DomainEvt]
    ELSE [name |-> rec.DomainCmdName, bytes |-> rec.DomainCmdBytes, obj |-> rec.DomainCmd]

\* the payload column of a row as it was before the event store encrypted it
PlainColumn(row) ==
    IF kind = "event" /\ HasCryptoService THEN decryptDomainData(row).rec.DataBytes
    ELSE row.DataBytes

\* the step in which a Create or Update of caller p has converted its record
Converts(p) == pc[p] = "idle" /\ pc'[p] = "begin"

RecordToRow(p) ==
    Converts(p) =>
        LET given == PayloadOf(call'[p].rec)
            row == call'[p].dbRecord
        IN /\ given.obj = Nil => PlainColumn(row) = given.bytes
           /\ given.obj # Nil => PlainColumn(row) = Serialize(given.obj)
           /\ given.name # "" => row.DataType = given.name
           /\ (given.name = "" /\ given.obj # Nil) => row.DataType = GetTypeName(given.obj)

\* C32: the row made of a record holds the raw payload bytes when the record
\* has no structured object and the serialized object when it has one, and as
\* type name the explicit name when there is one, else the object's type name.
C32_RecordToRow == [][\A p \in Callers : RecordToRow(p)]_vars

C32_Witness ==
    \E p \in Callers :
        /\ pc[p] = "begin"
        /\ PayloadOf(call[p].rec).obj # Nil
        /\ PayloadOf(call[p].rec).bytes # <<>>
        /\ PayloadOf(call[p].rec).name = ""
        /\ call[p].dbRecord.DataType = "int"
        /\ PlainColumn(call[p].dbRecord) = Serialize(PayloadOf(call[p].rec).obj)

\* the records caller p's Get or List returns, each with a row it was made of
ReturnedWith(p, Shape(_, _)) ==
    /\ (GetReads(p) /\ ret'.res.val # Nil) =>
           Shape(ret'.res.val, SelectWhereUuid(rows, call[p].uuid)[1])
    /\ (ListReads(p) /\ ret'.res.err = "") =>
           \A i \in 1..Len(ret'.res.val) :
               \E j \in 1..Len(rows) :
                   /\ rows[j].Uuid = RecordUuid(ret'.res.val[i])
                   /\ Shape(ret'.res.val[i], rows[j])

\* a command's request context: never nil, the stored one when text is stored
ReqCtxLoaded(rec, row) ==
    kind = "command" =>
        /\ rec.ReqCtx # Nil
        /\ Len(row.ReqCtx) > 0 => rec.ReqCtx = Deserialize(row.ReqCtx).ctx

\* C33 as stated: a returned record has no structured object, and its type
\* name and raw payload bytes are the stored columns; a returned command has a
\* request context.
ShapeAsStored(rec, row) ==
    /\ PayloadOf(rec).obj = Nil
    /\ PayloadOf(rec).name = row.DataType
    /\ PayloadOf(rec).bytes = row.DataBytes
    /\ ReqCtxLoaded(rec, row)

C33_ReturnedAsStored == [][\A p \in Callers : ReturnedWith(p, ShapeAsStored)]_vars

\* C33 amended: the raw payload bytes are the stored column, decrypted when
\* the event store has a crypto service.
ShapeAsOpened(rec, row) ==
    /\ PayloadOf(rec).obj = Nil
    /\ PayloadOf(rec).name = row.DataType
    /\ PayloadOf(rec).bytes = PlainColumn(row)
    /\ ReqCtxLoaded(rec, row)

C33_ReturnedAsOpened == [][\A p \in Callers : ReturnedWith(p, ShapeAsOpened)]_vars

C33_Witness ==
    /\ ret.res.op = "Get"
    /\ ret.res.val # Nil
    /\ kind = "event"
    /\ options.CryptoService
    /\ \E i \in 1..Len(rows) :
          /\ rows[i].Uuid = ret.res.val.EventUuid
          /\ rows[i].DataBytes # ret.res.val.DomainEvtBytes
          /\ PlainColumn(rows[i]) = ret.res.val.DomainEvtBytes


\* ------------------------------------------------- Init on a stored table
\* Init called on a store that is already open, with no call in flight:
\* connect() opens a second pool on the same file, which replaces es.db, and
\* migrate() runs CREATE TABLE / CREATE INDEX IF NOT EXISTS unless read-only
StoreInitAgain_recreates(readOnly, cryptoService) ==
    /\ db = "open"
    /\ \A p \in Callers : pc[p] = "idle"
    /\ openTx = {}
    /\ options' = [ReadOnly |-> readOnly, CryptoService |-> cryptoService]
    /\ files' = files \cup {"db"}
    /\ schema' = (schema \/ ~readOnly)
    /\ rows' = IF readOnly THEN rows ELSE <<>>
    /\ inUse' = 0
    /\ ret' = Returned(0, Result("Init", "", Nil, 0))
    /\ UNCHANGED <<kind, db, openTx, txWork, pc, call>>

StoreInitAgain(readOnly, cryptoService) ==
    /\ db = "open"
    /\ \A p \in Callers : pc[p] = "idle"
    /\ openTx = {}
    /\ options' = [ReadOnly |-> readOnly, CryptoService |-> cryptoService]
    /\ files' = files \cup {"db"}
    /\ schema' = (schema \/ ~readOnly)
    /\ inUse' = 0
    /\ ret' = Returned(0, Result("Init", "", Nil, 0))
    /\ UNCHANGED <<kind, db, rows, openTx, txWork, pc, call>>

ReopenNext ==
    \/ \E ro \in BOOLEAN, cs \in BOOLEAN : EventStoreInit(ro, cs)
    \/ \E ro \in BOOLEAN, cs \in BOOLEAN : CommandStoreInit(ro, cs)
    \/ \E ro \in BOOLEAN, cs \in BOOLEAN : StoreInitAgain(ro, cs)
    \/ \E evt \in EventInputs : EventStoreCreate(MainCaller, evt)
    \/ \E cmd \in CommandInputs : CommandStoreCreate(MainCaller, cmd)
    \/ \E p \in Callers : TxBegin(p)
    \/ \E p \in Callers : TxPrepare(p)
    \/ \E p \in Callers : TxExec(p)
    \/ \E p \in Callers : TxStmtClose(p)
    \/ \E p \in Callers : TxCommit(p)
    \/ \E uuid \in UuidInputs : EventStoreDelete(MainCaller, uuid)
    \/ \E uuid \in UuidInputs : CommandStoreDelete(MainCaller, uuid)
    \/ \E p \in Callers : ConnAcquire(p)
    \/ \E p \in Callers : StoreDeleteExec(p)

ReopenSpec == Init /\ [][ReopenNext]_vars

\* the step in which Init returns: on a store not opened before, or again
InitReturns ==
    \/ db = "nil" /\ db' = "open"
    \/ ret'.res.op = "Init"

\* C34: Init on a storage path that already holds the table and rows, for
\* the first time after a restart or again on an open store, succeeds, keeps
\* the table and leaves every row as it was.
C34_InitKeepsRows ==
    [][(InitReturns /\ schema) =>
           /\ db' = "open"
           /\ schema'
           /\ rows' = rows]_vars

C34_Witness ==
    /\ ret.res.op = "Init"
    /\ ret.res.err = ""
    /\ schema
    /\ Len(rows) = MaxRowId


\* a successful Create of caller p: one row more, the old rows as they were
CreateAddsOne(p) ==
    WriteSucceeds(p, {"Create"}) =>
        /\ Len(rows') = Len(rows) + 1
        /\ SubSeq(rows', 1, Len(rows)) = rows
        /\ rows'[Len(rows')].Uuid = call[p].dbRecord.Uuid
        /\ CountRows(rows') = CountRows(rows) + 1

\* C35: a Create that returns success adds exactly one row and leaves every
\* row that was there unchanged; the count Total reports grows by one.
C35_CreateAddsOne == [][\A p \in Callers : CreateAddsOne(p)]_vars

C35_Witness ==
    /\ ret.res.op = "Create"
    /\ ret.res.err = ""
    /\ Len(rows) = MaxRowId
    /\ rows[1].Uuid = rows[MaxRowId].Uuid


\* a successful Update of caller p: the same rows at the same places, each
\* with its id and uuid, and those of another uuid untouched
UpdateFrame(p) ==
    WriteSucceeds(p, {"Update"}) =>
        /\ Len(rows') = Len(rows)
        /\ \A i \in 1..Len(rows) :
              /\ rows'[i].ID = rows[i].ID
              /\ rows'[i].Uuid = rows[i].Uuid
              /\ rows[i].Uuid # call[p].dbRecord.Uuid => rows'[i] = rows[i]

\* C36: an Update that returns success changes no row whose uuid differs
\* from the record's, changes no row's uuid or id, and keeps the number of
\* rows.
C36_UpdateFrame == [][\A p \in Callers : UpdateFrame(p)]_vars

C36_Witness ==
    /\ ret.res.op = "Update"
    /\ ret.res.err = ""
    /\ \E i, j \in 1..Len(rows) :
          /\ rows[i].Uuid = "e1"
          /\ rows[i].TenantUuid = "t2"
          /\ rows[j].Uuid = "e2"


\* a List of caller p that returns a total and a page: in any one state of
\* the table a total of n matching rows comes with a page of
\* min(limit, max(0, n - offset)) rows
OneSnapshot(p) ==
    (ListReads(p) /\ ret'.res.err = "") =>
        Len(ret'.res.val)
          = Min(call[p].opts.Limit, Max(0, ret'.res.n - call[p].opts.Offset))

\* C37: with Creates and Deletes of other callers running during a List,
\* the total and the page List returns describe one and the same state of
\* the table.
C37_OneSnapshot == [][\A p \in Callers : OneSnapshot(p)]_vars


\* ------------------------------------------------------ concurrent Creates
\* every caller creates records under a uuid of its own
RaceUuid(p) == "e" \o ToString(p)

RaceEvent(p) == BaseEvent(RaceUuid(p), "t1", 1000, "T", EmptyObjectJSON, Nil)

RaceCommand(p) == BaseCommand(RaceUuid(p), "t1", 1000, "T", EmptyObjectJSON, Nil, Nil)

RaceNext ==
    \/ \E ro \in BOOLEAN, cs \in BOOLEAN : EventStoreInit(ro, cs)
    \/ \E ro \in BOOLEAN, cs \in BOOLEAN : CommandStoreInit(ro, cs)
    \/ \E p \in Callers : EventStoreCreate(p, RaceEvent(p))
    \/ \E p \in Callers : CommandStoreCreate(p, RaceCommand(p))
    \/ \E p \in Callers : TxBegin(p)
    \/ \E p \in Callers : TxPrepare(p)
    \/ \E p \in Callers : TxPrepareFail(p)
    \/ \E p \in Callers : TxExec(p)
    \/ \E p \in Callers : TxExecFail(p)
    \/ \E p \in Callers : TxStmtClose(p)
    \/ \E p \in Callers : TxStmtCloseFail(p)
    \/ \E p \in Callers : TxCommit(p)
    \/ \E p \in Callers : TxCommitFail(p)
    \/ \E p \in Callers : EventStoreTotal(p)
    \/ \E p \in Callers : CommandStoreTotal(p)
    \/ \E p \in Callers : ConnAcquire(p)
    \/ \E p \in Callers : StoreTotalRow(p)

RaceSpec == Init /\ [][RaceNext]_vars

\* the callers whose Create returns success in this step
Succeeding == {p \in Callers : WriteSucceeds(p, {"Create"})}

\* one step of a store on which callers only create and count: the rows
\* that were there stay as they are, one row is added for each Create that
\* returns success and it carries that caller's uuid, and Total returns the
\* number of rows
ConcurrentCreates ==
    /\ Len(rows') = Len(rows) + Cardinality(Succeeding)
    /\ SubSeq(rows', 1, Len(rows)) = rows
    /\ \A p \in Succeeding : rows'[Len(rows')].Uuid = RaceUuid(p)
    /\ \A p \in Callers : TotalReturns(p) => ret'.res.n = Len(rows)

\* C38: with Creates of distinct uuids running concurrently, every Create
\* that returns success has its row in the table from then on, no row is
\* lost or overwritten by another Create, and Total is the number of rows
\* there were at first plus the number of Creates that returned success.
C38_ConcurrentCreates == [][ConcurrentCreates]_vars

C38_Witness ==
    \E p, q \in Callers :
        /\ p # q
        /\ ret = Returned(p, Result("Create", "", Nil, 0))
        /\ rows # <<>>
        /\ rows[Len(rows)].Uuid = RaceUuid(p)
        /\ call[q].op = "Create"
        /\ pc[q] = "begin"

====
